---------------------------- MODULE Spec2Model ----------------------------
(***************************************************************************)
(* Bracket construction and progression engine of the tournament driver    *)
(* (Team, Game, TournamentDriver).  A team is a pair of user identifiers;  *)
(* user identifiers are positive integers, 0 stands for the empty string   *)
(* of Team.bye.  Games are kept in an arena keyed by id; links are ids,    *)
(* 0 stands for an undefined next_game.                                    *)
(***************************************************************************)
EXTENDS Integers, Sequences, FiniteSets, Bags, TLC

\* Largest number of teams a driver is constructed with.
MaxTeams == 5

\* Largest number of start() invocations made directly by the driver's
\* holder (re-entry model).
MaxReentries == 1

\* Largest number of teams of a driver in the re-entry model.
MaxReentryTeams == 5

\* Largest number of teams of a driver whose bracket alone is examined.
MaxBracketTeams == 60

\* Largest identifier of a user that signs up (team-formation model).
MaxUsers == 3

\* Largest identifier of a user that signs up or withdraws (signup model).
MaxSignupUsers == 2

\* Largest number of calls of register and unregister (signup model).
MaxSignupCalls == 2

\* The most days the Scheduler runs: the times loadToday is run.
MaxDays == 2

\* The most users signed up to a tournament whose pool is filled, the
\* shuffle returning them in any order.
MaxFillUsers == 5

\* The most users whose team formation is computed in the order of their
\* signup.
MaxPoolUsers == 17

\* The most users of a tournament whose pool is filled that declared a
\* partner.
MaxFillPartners == 2

\* The most teams of a run whose matches may report while they are summoned.
MaxSyncTeams == 5

\* let max = 8: the smallest pool the synthetic fill produces.
MinPool == 8

\* The static sentinel Team.bye = new Team('', '').
Bye == <<0, 0>>

\* JavaScript's undefined, where a team is expected.
Undefined == <<>>

\* No error recorded.
NoError == <<>>

\* The error run() raises on a driver without rounds (rounds[0] is undefined).
TypeError == <<"TypeError", 0, 0>>

\* seq[i] with a 0-based index, undefined when out of range.
At(seq, i) == IF i + 1 \in DOMAIN seq THEN seq[i + 1] ELSE Undefined

-----------------------------------------------------------------------------
(* Game and bracket construction                                            *)

\* new Game(id, round)
Game(id, round) ==
    [id |-> id, round |-> round, teams |-> <<>>,
     started |-> FALSE, finished |-> FALSE, col |-> -1, row |-> -1,
     previous_games |-> <<>>, next_game |-> 0]

\* Mutation: the loop also doubles when the teams exactly fill the games.
RECURSIVE game_count_loop_ge(_, _)
game_count_loop_ge(team_count, game_count) ==
    IF team_count >= 2 * game_count
    THEN game_count_loop_ge(team_count, game_count * 2)
    ELSE game_count

\* while (team_count > 2 * game_count) game_count *= 2
RECURSIVE game_count_loop(_, _)
game_count_loop(team_count, game_count) ==
    IF team_count > 2 * game_count
    THEN game_count_loop(team_count, game_count * 2)
    ELSE game_count

\* Math.floor(Math.log2(x)) for x >= 1
RECURSIVE floor_log2(_)
floor_log2(x) == IF x < 2 THEN 0 ELSE 1 + floor_log2(x \div 2)

\* Math.pow(2, e) for e >= 0
RECURSIVE pow2(_)
pow2(e) == IF e <= 0 THEN 1 ELSE 2 * pow2(e - 1)

\* The bracket under construction: the games map and the rounds.
EmptyBracket == [games |-> <<>>, rounds |-> <<>>]

\* for (i = 0; i < game_count; i++) { new Game(i + 1, 1) ... }
first_round(game_count, round_count) ==
    [games  |-> [id \in 1..game_count |-> Game(id, 1)],
     rounds |-> [r \in 1..round_count |->
                    IF r = 1 THEN [i \in 1..game_count |-> i] ELSE <<>>]]

\* Mutation: the number of byes left is not decremented.
populate_game_noDec(b, teams, index, round, byes, top, bottom) ==
    LET id   == b.rounds[round + 1][index + 1]
        game == b.games[id]
        t1   == Append(game.teams, At(teams, top))
        g2   == IF byes > 0
                THEN [game EXCEPT !.teams = Append(t1, Bye),
                                  !.started = TRUE, !.finished = TRUE,
                                  !.row = index * 2]
                ELSE [game EXCEPT !.teams = Append(t1, At(teams, bottom)),
                                  !.row = index * 2]
    IN [b      |-> [b EXCEPT !.games[id] = g2],
        byes   |-> byes,
        top    |-> top + 1,
        bottom |-> IF byes > 0 THEN bottom ELSE bottom - 1]

\* Mutation: the bottom cursor is not moved after its team was seated.
populate_game_noBottomDec(b, teams, index, round, byes, top, bottom) ==
    LET id   == b.rounds[round + 1][index + 1]
        game == b.games[id]
        t1   == Append(game.teams, At(teams, top))
        g2   == IF byes > 0
                THEN [game EXCEPT !.teams = Append(t1, Bye),
                                  !.started = TRUE, !.finished = TRUE,
                                  !.row = index * 2]
                ELSE [game EXCEPT !.teams = Append(t1, At(teams, bottom)),
                                  !.row = index * 2]
    IN [b      |-> [b EXCEPT !.games[id] = g2],
        byes   |-> IF byes > 0 THEN byes - 1 ELSE byes,
        top    |-> top + 1,
        bottom |-> bottom]

\* Mutation: a game given the bye is started but not finished.
populate_game_unfinished(b, teams, index, round, byes, top, bottom) ==
    LET id   == b.rounds[round + 1][index + 1]
        game == b.games[id]
        t1   == Append(game.teams, At(teams, top))
        g2   == IF byes > 0
                THEN [game EXCEPT !.teams = Append(t1, Bye),
                                  !.started = TRUE,
                                  !.row = index * 2]
                ELSE [game EXCEPT !.teams = Append(t1, At(teams, bottom)),
                                  !.row = index * 2]
    IN [b      |-> [b EXCEPT !.games[id] = g2],
        byes   |-> IF byes > 0 THEN byes - 1 ELSE byes,
        top    |-> top + 1,
        bottom |-> IF byes > 0 THEN bottom ELSE bottom - 1]

\* populate_game(index, round, byes, top, bottom): fills the two seats of
\* the game at rounds[round][index]; returns the bracket and the cursors.
populate_game(b, teams, index, round, byes, top, bottom) ==
    LET id   == b.rounds[round + 1][index + 1]
        game == b.games[id]
        t1   == Append(game.teams, At(teams, top))
        g2   == IF byes > 0
                THEN [game EXCEPT !.teams = Append(t1, Bye),
                                  !.started = TRUE, !.finished = TRUE,
                                  !.row = index * 2]
                ELSE [game EXCEPT !.teams = Append(t1, At(teams, bottom)),
                                  !.row = index * 2]
    IN [b      |-> [b EXCEPT !.games[id] = g2],
        byes   |-> IF byes > 0 THEN byes - 1 ELSE byes,
        top    |-> top + 1,
        bottom |-> IF byes > 0 THEN bottom ELSE bottom - 1]

\* Statement order: the state v a loop's body leaves is complete before
\* the next iteration e starts from it (TLC would otherwise unfold v only
\* after the last iteration, through every earlier one).
Completes(v, e) == IF v = v THEN e ELSE v

\* Mutation: the games are filled in position order, two per iteration.
RECURSIVE populate_loop_inOrder(_, _, _, _)
populate_loop_inOrder(s, teams, game_count, i) ==
    IF i * 2 >= game_count THEN s.b
    ELSE LET a == populate_game(s.b, teams, 2 * i, 0, s.byes, s.top, s.bottom)
             c == populate_game(a.b, teams, (2 * i) + 1, 0,
                                a.byes, a.top, a.bottom)
         IN Completes(c, populate_loop_inOrder(c, teams, game_count, i + 1))

\* for (i = 0; i < game_count / 2; i++) { top bracket, then bottom bracket }
RECURSIVE populate_loop(_, _, _, _)
populate_loop(s, teams, game_count, i) ==
    IF i * 2 >= game_count THEN s.b
    ELSE LET a == populate_game(s.b, teams, i, 0, s.byes, s.top, s.bottom)
             c == populate_game(a.b, teams, game_count - (1 + i), 0,
                                a.byes, a.top, a.bottom)
         IN Completes(c, populate_loop(c, teams, game_count, i + 1))

\* Mutation: only the first predecessor is given its next_game.
link_game_oneLink(b, game_count, round, round_games, i, row, game_id) ==
    LET previous1 == b.rounds[round - 1][(i * 2) + 1]
        previous2 == b.rounds[round - 1][(i * 2) + 2]
        game == [Game(game_id, round) EXCEPT
                    !.previous_games = <<previous1, previous2>>,
                    !.col = 2 * (round - 1),
                    !.row = row + ((game_count \div round_games) * i * 2)]
        set == IF game_id \in DOMAIN b.games
               THEN [b.games EXCEPT ![game_id] = game]
               ELSE Append(b.games, game)
        gs == [set EXCEPT ![previous1].next_game = game_id]
    IN [games  |-> gs,
        rounds |-> [b.rounds EXCEPT ![round] = Append(@, game_id)]]

\* Mutation: the games of a round lie half as far apart.
link_game_rowStep(b, game_count, round, round_games, i, row, game_id) ==
    LET previous1 == b.rounds[round - 1][(i * 2) + 1]
        previous2 == b.rounds[round - 1][(i * 2) + 2]
        game == [Game(game_id, round) EXCEPT
                    !.previous_games = <<previous1, previous2>>,
                    !.col = 2 * (round - 1),
                    !.row = row + ((game_count \div round_games) * i)]
        set == IF game_id \in DOMAIN b.games
               THEN [b.games EXCEPT ![game_id] = game]
               ELSE Append(b.games, game)
        gs == [set EXCEPT ![previous1].next_game = game_id,
                          ![previous2].next_game = game_id]
    IN [games  |-> gs,
        rounds |-> [b.rounds EXCEPT ![round] = Append(@, game_id)]]

\* One game of a later round: created, linked to its two predecessors.
link_game(b, game_count, round, round_games, i, row, game_id) ==
    LET previous1 == b.rounds[round - 1][(i * 2) + 1]
        previous2 == b.rounds[round - 1][(i * 2) + 2]
        game == [Game(game_id, round) EXCEPT
                    !.previous_games = <<previous1, previous2>>,
                    !.col = 2 * (round - 1),
                    !.row = row + ((game_count \div round_games) * i * 2)]
        set == IF game_id \in DOMAIN b.games
               THEN [b.games EXCEPT ![game_id] = game]
               ELSE Append(b.games, game)
        gs == [set EXCEPT ![previous1].next_game = game_id,
                          ![previous2].next_game = game_id]
    IN [games  |-> gs,
        rounds |-> [b.rounds EXCEPT ![round] = Append(@, game_id)]]

\* Mutation: game_id is not incremented within a round.
RECURSIVE round_loop_sameId(_, _, _, _, _, _, _)
round_loop_sameId(b, game_count, round, round_games, i, row, game_id) ==
    IF i >= round_games THEN b
    ELSE LET nb == link_game(b, game_count, round, round_games, i, row,
                             game_id)
         IN Completes(nb, round_loop_sameId(nb, game_count, round,
                                            round_games, i + 1, row, game_id))

\* for (i = 0; i < round_games; i++) within one round
RECURSIVE round_loop(_, _, _, _, _, _, _)
round_loop(b, game_count, round, round_games, i, row, game_id) ==
    IF i >= round_games THEN b
    ELSE LET nb == link_game(b, game_count, round, round_games, i, row,
                             game_id)
         IN Completes(nb, round_loop(nb, game_count, round, round_games,
                                     i + 1, row, game_id + 1))

\* Mutation: after round `round` the row offset grows by 2^(round-2).
RECURSIVE rounds_loop_half(_, _, _, _, _, _, _)
rounds_loop_half(b, game_count, round_count, round, round_games, row, game_id) ==
    IF round >= round_count + 1 THEN b
    ELSE LET nb == round_loop(b, game_count, round, round_games, 0, row,
                              game_id)
         IN Completes(nb, rounds_loop_half(nb, game_count, round_count,
                                               round + 1, round_games \div 2,
                                               row + pow2(round - 2),
                                               game_id + round_games))

\* for (round = 2; round < round_count + 1; round++)
RECURSIVE rounds_loop(_, _, _, _, _, _, _)
rounds_loop(b, game_count, round_count, round, round_games, row, game_id) ==
    IF round >= round_count + 1 THEN b
    ELSE LET nb == round_loop(b, game_count, round, round_games, 0, row,
                              game_id)
         IN Completes(nb, rounds_loop(nb, game_count, round_count, round + 1,
                                      round_games \div 2,
                                      row + pow2(round - 1),
                                      game_id + round_games))

\* The bracket for at least two teams.
build_bracket(teams) ==
    LET team_count  == Len(teams)
        game_count  == game_count_loop(team_count, 2)
        byes        == (game_count * 2) - team_count
        round_count == floor_log2(game_count) + 1
        b1 == populate_loop([b |-> first_round(game_count, round_count),
                             byes |-> byes, top |-> 0,
                             bottom |-> team_count - 1],
                            teams, game_count, 0)
    IN rounds_loop(b1, game_count, round_count, 2, game_count \div 2, 1,
                   game_count + 1)

\* Mutation: the cancel threshold is one team too low.
createBracket_lt3(teams) ==
    IF Len(teams) < 3 THEN EmptyBracket ELSE build_bracket(teams)

\* TournamentDriver.createBracket
createBracket(teams) ==
    IF Len(teams) < 4 THEN EmptyBracket ELSE build_bracket(teams)

\* TournamentDriver.canceled
canceled(rounds) == Len(rounds) = 0

-----------------------------------------------------------------------------
(* Team formation: TournamentDriver.pickTeams.  The signups are a function  *)
(* from the users signed up to the partner each declared, 0 for none; a     *)
(* Map or a Set is a sequence in insertion order.                           *)

\* _.shuffle(Array.from(this.t.signups().entries())) made a Map again: the
\* entries [user, partner] in the order perm, a permutation of the users.
shuffle(sg, perm) == [k \in DOMAIN perm |-> <<perm[k], sg[perm[k]]>>]

\* Mutation: the pool doubles also when the signups exactly fill it.
RECURSIVE max_loop_ge(_, _)
max_loop_ge(count, max) ==
    IF count >= max THEN max_loop_ge(count, 2 * max) ELSE max

\* while (count > max) max *= 2.
RECURSIVE max_loop(_, _)
max_loop(count, max) ==
    IF count > max THEN max_loop(count, 2 * max) ELSE max

\* The i-th name generated for a synthetic opponent: names are unique and
\* no user's.
botName(i) == 0 - i

\* The reject pile after the synthetic fill.
fillBots(rejects, hst) ==
    IF hst = "bots"
    THEN LET count == Len(rejects)
             max   == max_loop(count, MinPool)
         IN rejects \o [i \in 1..(max - count) |-> botName(i)]
    ELSE rejects

\* Set.has.
has(rejects, x) == \E k \in DOMAIN rejects : rejects[k] = x

\* Mutation: nothing is taken off the pile.
delete_none(rejects, x) == rejects

\* Set.delete.
delete(rejects, x) == SelectSeq(rejects, LAMBDA y : y # x)

\* signups.get(u): the partner u declared; 0 also for undefined, which
\* like null equals no user.
get(entries, u) ==
    IF \E k \in DOMAIN entries : entries[k][1] = u
    THEN entries[CHOOSE k \in DOMAIN entries : entries[k][1] = u][2]
    ELSE 0

\* Mutation: a declared partner who is still in the pile is teamed up
\* whether or not the declaration is returned.
RECURSIVE match_loop_oneSided(_, _, _, _)
match_loop_oneSided(entries, k, rejects, ts) ==
    IF k > Len(entries)
    THEN [rejects |-> rejects, teams |-> ts]
    ELSE LET user    == entries[k][1]
             partner == entries[k][2]
         IN IF \/ ~has(rejects, user)
               \/ partner = 0
               \/ ~has(rejects, partner)
            THEN match_loop_oneSided(entries, k + 1, rejects, ts)
            ELSE match_loop_oneSided(entries, k + 1,
                                     delete(delete(rejects, user), partner),
                                     Append(ts, <<user, partner>>))

\* for (const [user, partner] of signups.entries()): the walk over the
\* shuffled entries from the k-th on.
RECURSIVE match_loop(_, _, _, _)
match_loop(entries, k, rejects, ts) ==
    IF k > Len(entries)
    THEN [rejects |-> rejects, teams |-> ts]
    ELSE LET user    == entries[k][1]
             partner == entries[k][2]
         IN IF \/ ~has(rejects, user)
               \/ partner = 0
               \/ ~has(rejects, partner)
               \/ get(entries, partner) # user
            THEN match_loop(entries, k + 1, rejects, ts)
            ELSE match_loop(entries, k + 1,
                            delete(delete(rejects, user), partner),
                            Append(ts, <<user, partner>>))

\* The pile and the teams after the partner matching.
partnerMatch(entries, hst, cp) ==
    LET rejects == fillBots([k \in DOMAIN entries |-> entries[k][1]], hst)
    IN IF cp
       THEN match_loop(entries, 1, rejects, <<>>)
       ELSE [rejects |-> rejects, teams |-> <<>>]

\* Mutation: each team takes one identifier off the array and shares its
\* second member with the next team.
RECURSIVE pair_loop_overlap(_, _)
pair_loop_overlap(left, ts) ==
    IF Len(left) <= 1
    THEN ts
    ELSE pair_loop_overlap(SubSeq(left, 1, Len(left) - 1),
                           Append(ts, <<left[Len(left)], left[Len(left) - 1]>>))

\* while (left.length > 0) teams.push(new Team(left.pop(), left.pop())).
RECURSIVE pair_loop(_, _)
pair_loop(left, ts) ==
    IF Len(left) = 0
    THEN ts
    ELSE pair_loop(SubSeq(left, 1, Len(left) - 2),
                   Append(ts, <<left[Len(left)], left[Len(left) - 1]>>))

\* The indices _.sample can pick the dropped identifier at.
samples(entries, hst, cp) ==
    LET m == partnerMatch(entries, hst, cp)
    IN IF Len(m.rejects) % 2 # 0 THEN 1..Len(m.rejects) ELSE {1}

\* Mutation: the first of the shuffled entries is left out of the snapshot.
pickTeams_skipFirst(entries, hst, cp, pick) ==
    LET m    == partnerMatch(SubSeq(entries, 2, Len(entries)), hst, cp)
        odd  == Len(m.rejects) % 2 # 0
        d    == IF odd THEN m.rejects[1] ELSE 0
        left == IF odd THEN delete(m.rejects, d) ELSE m.rejects
    IN [teams |-> pair_loop(left, m.teams), dropped |-> d,
        bots |-> {m.rejects[k] : k \in DOMAIN m.rejects}
                    \ {entries[k][1] : k \in DOMAIN entries}]

\* pickTeams() over the shuffled entries, _.sample picking the pick-th of
\* the pile: the teams, the dropped identifier (0 for undefined) and the
\* names generated for synthetic opponents.
pickTeams(entries, hst, cp, pick) ==
    LET m    == partnerMatch(entries, hst, cp)
        odd  == Len(m.rejects) % 2 # 0
        d    == IF odd THEN m.rejects[pick] ELSE 0
        left == IF odd THEN delete(m.rejects, d) ELSE m.rejects
        pile == fillBots([k \in DOMAIN entries |-> entries[k][1]], hst)
    IN [teams |-> pair_loop(left, m.teams), dropped |-> d,
        bots |-> {pile[k] : k \in DOMAIN pile}
                    \ {entries[k][1] : k \in DOMAIN entries}]

\* assert(a); assert(b) for every pair popped off the array left.
RECURSIVE pair_asserts(_)
pair_asserts(left) ==
    IF Len(left) = 0
    THEN TRUE
    ELSE /\ left[Len(left)] # 0
         /\ Len(left) >= 2
         /\ left[Len(left) - 1] # 0
         /\ pair_asserts(SubSeq(left, 1, Len(left) - 2))

\* The assertions of pickTeams all hold: assert(dropped),
\* assert(rejects.size % 2 === 0), and assert(a), assert(b) of every pair.
pickTeams_asserts(entries, hst, cp, pick) ==
    LET m    == partnerMatch(entries, hst, cp)
        odd  == Len(m.rejects) % 2 # 0
        d    == IF odd /\ pick \in DOMAIN m.rejects THEN m.rejects[pick] ELSE 0
        left == IF odd THEN delete(m.rejects, d) ELSE m.rejects
    IN /\ odd => d # 0
       /\ Len(left) % 2 = 0
       /\ pair_asserts(left)

\* assert(game) of populate_game: rounds[round][index] is a game.
populate_game_assert(b, index, round) ==
    /\ round + 1 \in DOMAIN b.rounds
    /\ index + 1 \in DOMAIN b.rounds[round + 1]
    /\ b.rounds[round + 1][index + 1] \in DOMAIN b.games

\* The assertions of createBracket all hold: the one of populate_game, for
\* the top and the bottom bracket of every iteration of the loop.
createBracket_asserts(teams) ==
    Len(teams) >= 4 =>
        LET game_count  == game_count_loop(Len(teams), 2)
            round_count == floor_log2(game_count) + 1
            b           == first_round(game_count, round_count)
        IN \A i \in 0..((game_count \div 2) - 1) :
              /\ populate_game_assert(b, i, 0)
              /\ populate_game_assert(b, game_count - (1 + i), 0)

\* A scheduled Tournament: the fields of its row the Scheduler reads.
Tournament(id, opened, closed, started, invitation, invitees) ==
    [id |-> id, signup_opened |-> opened, signup_closed |-> closed,
     started |-> started, finished |-> FALSE, invitation |-> invitation,
     invitees |-> invitees]

\* this.t.id: the identifier of the tournament the driver is constructed
\* with.
t_id == 1

\* A notification of the Scheduler (signupOpen, signupClosed, started,
\* registered, unregistered) about tournament id.
Notice(type, id, user, partner) ==
    [type |-> type, t |-> id, user |-> user, partner |-> partner]

\* A pending setTimeout: the handler it will call and the tournament it
\* will call it with (0 for loadToday, which takes none).
Timer(handler, id) == <<handler, id>>

\* What a call of the Scheduler came to: the failed assertion, with its
\* message and the identifier the message names (0 if none), or the boolean
\* of the [t, changed] it returned.
Throws(message, id) == <<"AssertionError", message, id>>

Returns(changed) == <<"returns", changed>>

\* this.tourneys is a Map, here the sequence of its values in the order of
\* their insertion.  this.tourneys.has(id).
tourneys_has(tn, id) == \E k \in DOMAIN tn : tn[k].id = id

\* this.tourneys.get(id), for an id the map has.
tourneys_get(tn, id) == tn[CHOOSE k \in DOMAIN tn : tn[k].id = id]

\* this.tourneys.set(tt.id, tt): the value of a key the map has is
\* replaced where it stands, a new key comes last.
tourneys_set(tn, tt) ==
    IF tourneys_has(tn, tt.id)
    THEN [k \in DOMAIN tn |-> IF tn[k].id = tt.id THEN tt ELSE tn[k]]
    ELSE Append(tn, tt)

\* for (const t of rows) this.tourneys.set(t.id, ...), in the rows' order.
RECURSIVE setAll(_, _)
setAll(tn, rows) ==
    IF rows = <<>>
    THEN tn
    ELSE setAll(tourneys_set(tn, Head(rows)), Tail(rows))

\* The loop of register over this.tourneys.values(): the identifier of the
\* first tournament other than id, with its signup opened and neither
\* started nor finished, whose signups have user u; 0 if there is none.
\* sg is the table signups: sg[id] is t.signups() of tournament id.
registeredElsewhere(tn, sg, id, u) ==
    LET found == {k \in DOMAIN tn :
                     /\ tn[k].id # id
                     /\ tn[k].signup_opened
                     /\ ~tn[k].started
                     /\ ~tn[k].finished
                     /\ u \in DOMAIN sg[tn[k].id]}
    IN IF found = {}
       THEN 0
       ELSE tn[CHOOSE k \in found : \A j \in found : k <= j].id

\* Scheduler.register(id, user, partner): the tournament is looked up in
\* this.tourneys, then the assertions in their order, the early return for
\* a row that exists with this partner, and the INSERT OR REPLACE of the
\* user's row with the registered notification.  The user 0 is the empty
\* string, the partner 0 is '' (stored as NULL).
register(tn, sg, em, id, u, p) ==
    LET fails(message, of) ==
            [signups |-> sg, emitted |-> em, answer |-> Throws(message, of)]
        tt    == tourneys_get(tn, id)
        other == registeredElsewhere(tn, sg, id, u)
    IN IF u = 0 THEN fails("user", 0)
       ELSE IF ~tourneys_has(tn, id) THEN fails("Invalid tournament", id)
       ELSE IF ~(tt.signup_opened /\ ~tt.signup_closed)
       THEN fails("Signup is not open for", id)
       ELSE IF u = p THEN fails("Yourself as partner?", 0)
       ELSE IF tt.invitation /\ u \notin tt.invitees
       THEN fails("Not invited", 0)
       ELSE IF other # 0
       THEN fails("Already registered for", other)
       ELSE IF u \in DOMAIN sg[id] /\ sg[id][u] = p
       THEN [signups |-> sg, emitted |-> em, answer |-> Returns(FALSE)]
       ELSE [signups |-> [sg EXCEPT ![id] =
                             [v \in DOMAIN sg[id] \cup {u} |->
                                 IF v = u THEN p ELSE sg[id][v]]],
             emitted |-> em (+) SetToBag({Notice("registered", id, u, p)}),
             answer |-> Returns(TRUE)]

\* Scheduler.unregister(id, user): the tournament is looked up in
\* this.tourneys, then the assertions in their order, the DELETE of the
\* user's row and the unregistered notification.
unregister(tn, sg, em, id, u) ==
    LET fails(message, of) ==
            [signups |-> sg, emitted |-> em, answer |-> Throws(message, of)]
        tt      == tourneys_get(tn, id)
        changed == Cardinality(DOMAIN sg[id] \cap {u})
    IN IF u = 0 THEN fails("user", 0)
       ELSE IF ~tourneys_has(tn, id) THEN fails("Invalid tournament", id)
       ELSE IF ~(tt.signup_opened /\ ~tt.signup_closed)
       THEN fails("Signup not open for", id)
       ELSE IF u \notin DOMAIN sg[id] THEN fails("Not signed up for", id)
       ELSE IF changed = 0
       THEN [signups |-> sg, emitted |-> em, answer |-> Returns(FALSE)]
       ELSE [signups |-> [sg EXCEPT ![id] =
                             [v \in DOMAIN sg[id] \ {u} |-> sg[id][v]]],
             emitted |-> em (+) SetToBag({Notice("unregistered", id, u, 0)}),
             answer |-> Returns(TRUE)]

\* Scheduler.openSignup(t): the flag is saved and signupOpen emitted if
\* the signup was not opened yet; closeSignup is scheduled.
openSignup(tt, em, tm) ==
    [t |-> [tt EXCEPT !.signup_opened = TRUE],
     emitted |-> IF tt.signup_opened THEN em
                 ELSE em (+) SetToBag({Notice("signupOpen", tt.id, 0, 0)}),
     timers |-> tm (+) SetToBag({Timer("closeSignup", tt.id)})]

\* Scheduler.closeSignup(t): the flag is saved and signupClosed emitted if
\* the signup was not closed yet; start is scheduled.
closeSignup(tt, em, tm) ==
    [t |-> [tt EXCEPT !.signup_closed = TRUE],
     emitted |-> IF tt.signup_closed THEN em
                 ELSE em (+) SetToBag({Notice("signupClosed", tt.id, 0, 0)}),
     timers |-> tm (+) SetToBag({Timer("start", tt.id)})]

\* Scheduler.start(t): started is saved and the notification emitted.
schedulerStart(tt, em, tm) ==
    [t |-> [tt EXCEPT !.started = TRUE],
     emitted |-> em (+) SetToBag({Notice("started", tt.id, 0, 0)}),
     timers |-> tm]

\* createRecurringInstance(today, t), for a recurring tournament that
\* starts later today: the instance saved under the new identifier id, its
\* flags cleared and nobody invited; invitation is the source's.
createRecurringInstance(id, invitation) ==
    Tournament(id, FALSE, FALSE, FALSE, invitation, {})

\* Scheduler.loadToday(), the configuration being PRODUCTION: the rows of
\* todaysTournaments and then the instances created for
\* todaysRecurringTournaments are set in this.tourneys, openSignup is
\* scheduled for every tournament of this.tourneys, loadToday for the next
\* day.
loadToday(tn, rows, instances, tm) ==
    LET loaded == setAll(setAll(tn, rows), instances)
    IN [tourneys |-> loaded,
        timers |-> (tm (+) SetToBag({Timer("openSignup", loaded[k].id) :
                                        k \in DOMAIN loaded}))
                      (+) SetToBag({Timer("loadToday", 0)})]

-----------------------------------------------------------------------------
(* Run-time state                                                           *)

VARIABLES
    teams,    \* driver.teams: the ordered team list
    bots,     \* the identifiers GameRoom.isBot recognizes
    games,    \* driver.games: id -> Game
    rounds,   \* driver.rounds: per round, the ids of its games
    chains,   \* per outermost start() invocation: its call and the nested
              \* start() calls its promise came to follow, in order
    runs,     \* per run() invocation: its root chains and its promise
    promises, \* the promises created so far: state, error, reactions
    jobs,     \* the microtask queue, first in first out
    events,   \* bag of the notifications emitted by the driver
    signups,  \* the table signups: tournament id -> user -> declared
              \* partner, 0 for none; signups[t_id] is this.t.signups()
    host,     \* t.host
    choosePartner, \* t.choosePartner
    dropped,  \* driver.dropped, 0 for undefined
    observed, \* pickTeams' local Map: the shuffled entries it read
    built,    \* the driver has been constructed
    order,    \* the order _.shuffle will leave the users in, first to last
    tourneys, \* Scheduler.tourneys: its Tournaments, as they were inserted
    emitted,  \* bag of the notifications emitted by the Scheduler
    timers,   \* bag of the pending setTimeout calls of the Scheduler
    days,     \* the number of times loadToday has run
    answer,   \* what the last call of register or unregister came to
    requests  \* the number of calls of register and unregister made

tvars == <<signups, host, choosePartner, dropped, observed, built, order,
           tourneys, emitted, timers, days, answer, requests>>

vars == <<teams, bots, games, rounds, chains, runs, promises, jobs, events,
          signups, host, choosePartner, dropped, observed, built, order,
          tourneys, emitted, timers, days, answer, requests>>

\* The team lists a driver is constructed with: team i is users 2i-1, 2i.
TeamList(n) == [i \in 1..n |-> <<(2 * i) - 1, 2 * i>>]

\* The sets of identifiers that are synthetic opponents.
BotSets == {{}, {1, 2, 3}}

\* The winning seat indices a finished match reports (save.winnerIndices).
WinnerIndices == {<<0, 2>>, <<1, 3>>}

\* GameRoom.isBot(id)
isBot(id) == id \in bots

\* A notification of the driver (AnnounceBye, SummonTable, TournamentOver).
Event(type, round, user, room, winners) ==
    [type |-> type, round |-> round, user |-> user, room |-> room,
     winners |-> winners]

\* driver.emit(name, event)
emit(ev, e) == ev (+) SetToBag({e})

\* One invocation of Game.start and the promise it returned:
\*   pc      "lookup"  awaiting user() for seat `seat`
\*           "room"    pending on the handlers of its GameRoom
\*           "follow"  resolved with the promise of the next call of the chain
\*           "done"    fulfilled
\*           "failed"  rejected with err
\*   room    "none" | "live" | "over" | "error": the GameRoom it created
\*   active  when start was invoked the game held two real teams and a
\*           live GameRoom
\*   sync    its GameRoom reported its outcome while summonTable was
\*           being delivered
Call(g, pc, active) ==
    [g |-> g, pc |-> pc, seat |-> 0, table |-> <<>>, room |-> "none",
     active |-> active, sync |-> FALSE, err |-> NoError]

\* The calls of all chains, as a set of <<chain, depth>> positions.
CallIds == UNION {{<<i, d>> : d \in DOMAIN chains[i]} : i \in DOMAIN chains}

CallAt(id) == chains[id[1]][id[2]]

\* The GameRooms created so far for game g.
RoomsOf(g) == {id \in CallIds : CallAt(id).g = g /\ CallAt(id).room # "none"}

\* Game g has a GameRoom that reported neither gameOver nor gameError.
HasLiveRoom(g) ==
    \E i \in DOMAIN chains : \E d \in DOMAIN chains[i] :
        chains[i][d].g = g /\ chains[i][d].room = "live"

\* Mutation: only the first seat is compared with Team.bye.
bye_firstOnly(ts) ==
    IF At(ts, 0) = Bye THEN At(ts, 1) ELSE Undefined

\* Mutation: the getter returns the sentinel itself.
bye_sentinel(ts) ==
    IF At(ts, 0) = Bye \/ At(ts, 1) = Bye THEN Bye ELSE Undefined

\* Game.bye: if the game has a bye, the other team.
bye(ts) ==
    IF Len(ts) >= 1 /\ At(ts, 0) = Bye THEN At(ts, 1)
    ELSE IF At(ts, 1) = Bye THEN At(ts, 0)
    ELSE Undefined

\* Mutation: a game with a single team is taken to be ready.
notReady_lt1(ts) == Len(ts) < 1

\* if (teams.length < 2): not ready to start
notReady(ts) == Len(ts) < 2

\* Mutation: the seats are filled team by team.
SeatUser_teamByTeam(ts, k) == ts[(k \div 2) + 1][(k % 2) + 1]

\* The user of seat k of the table: teams[k % 2].users[k / 2].
SeatUser(ts, k) == ts[(k % 2) + 1][(k \div 2) + 1]

\* Mutation: the bye is announced to the first user of the team only.
announceBye_firstOnly(ev, round, team) ==
    IF isBot(team[1])
    THEN ev
    ELSE emit(ev, Event("announceBye", round, team[1], <<>>, <<>>))

\* The bye branch's announcements: one per user of the team that is no bot.
announceBye(ev, round, team) ==
    LET e1 == IF isBot(team[1]) THEN ev
              ELSE emit(ev, Event("announceBye", round, team[1], <<>>, <<>>))
    IN IF isBot(team[2]) THEN e1
       ELSE emit(e1, Event("announceBye", round, team[2], <<>>, <<>>))

\* Game.start up to its first suspension: the games, the events and the
\* calls made (this call first, then the nested calls it follows).
RECURSIVE start(_, _, _)
start(gs, ev, g) ==
    LET game   == gs[g]
        b      == bye(game.teams)
        active == /\ HasLiveRoom(g)
                  /\ Len(game.teams) = 2
                  /\ Bye \notin {game.teams[1], game.teams[2]}
    IN IF b # Undefined
       THEN LET ev1 == announceBye(ev, game.round, b)
            IN IF game.next_game = 0
               THEN [games |-> gs, events |-> ev1,
                     calls |-> <<[Call(g, "failed", active) EXCEPT
                                       !.err = TypeError]>>]
               ELSE LET r == start([gs EXCEPT ![game.next_game].teams =
                                                    Append(@, b)],
                                   ev1, game.next_game)
                    IN [games |-> r.games, events |-> r.events,
                        calls |-> <<Call(g, "follow", active)>> \o r.calls]
       ELSE IF notReady(game.teams)
       THEN [games |-> gs, events |-> ev,
             calls |-> <<Call(g, "done", active)>>]
       ELSE [games |-> gs, events |-> ev,
             calls |-> <<Call(g, "lookup", active)>>]

\* Mutation: summonTable is emitted twice for the GameRoom.
lookup_summonTwice(c, ts, round, rid, ev) ==
    LET table == Append(c.table, SeatUser(ts, c.seat))
    IN IF c.seat < 3
       THEN IF At(ts, (c.seat + 1) % 2) = Undefined
            THEN [call |-> [c EXCEPT !.pc = "failed", !.err = TypeError,
                                     !.table = table],
                  events |-> ev]
            ELSE [call |-> [c EXCEPT !.seat = c.seat + 1, !.table = table],
                  events |-> ev]
       ELSE [call |-> [c EXCEPT !.pc = "room", !.room = "live",
                                !.table = table],
             events |-> emit(emit(ev, Event("summonTable", round, 0, rid, <<>>)),
                             Event("summonTable", round, 0, rid, <<>>))]

\* The continuation of start after `await user(...)` for seat c.seat
\* fulfilled: the next lookup, or the GameRoom with its summonTable.
lookup(c, ts, round, rid, ev) ==
    LET table == Append(c.table, SeatUser(ts, c.seat))
    IN IF c.seat < 3
       THEN IF At(ts, (c.seat + 1) % 2) = Undefined
            THEN [call |-> [c EXCEPT !.pc = "failed", !.err = TypeError,
                                     !.table = table],
                  events |-> ev]
            ELSE [call |-> [c EXCEPT !.seat = c.seat + 1, !.table = table],
                  events |-> ev]
       ELSE [call |-> [c EXCEPT !.pc = "room", !.room = "live",
                                !.table = table],
             events |-> emit(ev, Event("summonTable", round, 0, rid, <<>>))]

\* Mutation: the rejected lookup is recorded, but start() goes on to
\* construct the GameRoom and to emit summonTable.
lookupFailed_goesOn(c, ev, u, rid) ==
    [call |-> [c EXCEPT !.pc = "room", !.room = "live",
                        !.err = <<"lookup", u, 0>>],
     events |-> emit(ev, Event("summonTable", 0, 0, rid, <<>>))]

\* The await of a seat's user() throws: start() of call c is rejected with
\* the lookup's error before the GameRoom is constructed.
lookupFailed(c, ev, u, rid) ==
    [call |-> [c EXCEPT !.pc = "failed", !.err = <<"lookup", u, 0>>],
     events |-> ev]

\* Mutation: the handler pushes the winners and resolves without starting
\* the successor.
gameOver_noStart(gs, ev, c, rid, w) ==
    LET winners   == <<c.table[w[1] + 1], c.table[w[2] + 1]>>
        next_game == gs[c.g].next_game
    IN IF next_game = 0
       THEN [games |-> gs,
             events |-> emit(ev, Event("tournamentOver", gs[c.g].round, 0,
                                       rid, winners)),
             calls |-> <<[c EXCEPT !.pc = "done", !.room = "over"]>>]
       ELSE [games |-> [gs EXCEPT ![next_game].teams = Append(@, winners)],
             events |-> ev,
             calls |-> <<[c EXCEPT !.pc = "done", !.room = "over"]>>]

\* Mutation: every finished game announces the end of the tournament.
gameOver_always(gs, ev, c, rid, w) ==
    LET winners   == <<c.table[w[1] + 1], c.table[w[2] + 1]>>
        next_game == gs[c.g].next_game
        ev1       == emit(ev, Event("tournamentOver", gs[c.g].round, 0,
                                    rid, winners))
    IN IF next_game = 0
       THEN [games |-> gs, events |-> ev1,
             calls |-> <<[c EXCEPT !.pc = "done", !.room = "over"]>>]
       ELSE LET r == start([gs EXCEPT ![next_game].teams = Append(@, winners)],
                           ev1, next_game)
            IN [games |-> r.games, events |-> r.events,
                calls |-> <<[c EXCEPT !.pc = "follow", !.room = "over"]>>
                          \o r.calls]

\* Mutation: the winners are taken from the first winning seat and the
\* seat next to it.
gameOver_adjacent(gs, ev, c, rid, w) ==
    LET winners   == <<c.table[w[1] + 1], c.table[w[1] + 2]>>
        next_game == gs[c.g].next_game
    IN IF next_game = 0
       THEN [games |-> gs,
             events |-> emit(ev, Event("tournamentOver", gs[c.g].round, 0,
                                       rid, winners)),
             calls |-> <<[c EXCEPT !.pc = "done", !.room = "over"]>>]
       ELSE LET r == start([gs EXCEPT ![next_game].teams = Append(@, winners)],
                           ev, next_game)
            IN [games |-> r.games, events |-> r.events,
                calls |-> <<[c EXCEPT !.pc = "follow", !.room = "over"]>>
                          \o r.calls]

\* Mutation: the winners are pushed into the successor twice.
gameOver_pushTwice(gs, ev, c, rid, w) ==
    LET winners   == <<c.table[w[1] + 1], c.table[w[2] + 1]>>
        next_game == gs[c.g].next_game
    IN IF next_game = 0
       THEN [games |-> gs,
             events |-> emit(ev, Event("tournamentOver", gs[c.g].round, 0,
                                       rid, winners)),
             calls |-> <<[c EXCEPT !.pc = "done", !.room = "over"]>>]
       ELSE LET r == start([gs EXCEPT ![next_game].teams =
                                         Append(Append(@, winners), winners)],
                           ev, next_game)
            IN [games |-> r.games, events |-> r.events,
                calls |-> <<[c EXCEPT !.pc = "follow", !.room = "over"]>>
                          \o r.calls]

\* The room.once('gameOver') handler of call c, for winning seats w.
gameOver(gs, ev, c, rid, w) ==
    LET winners   == <<c.table[w[1] + 1], c.table[w[2] + 1]>>
        next_game == gs[c.g].next_game
    IN IF next_game = 0
       THEN [games |-> gs,
             events |-> emit(ev, Event("tournamentOver", gs[c.g].round, 0,
                                       rid, winners)),
             calls |-> <<[c EXCEPT !.pc = "done", !.room = "over"]>>]
       ELSE LET r == start([gs EXCEPT ![next_game].teams = Append(@, winners)],
                           ev, next_game)
            IN [games |-> r.games, events |-> r.events,
                calls |-> <<[c EXCEPT !.pc = "follow", !.room = "over"]>>
                          \o r.calls]

\* Mutation: the handler absorbs the error and resolves.
gameError_absorb(c, rid) ==
    [c EXCEPT !.pc = "done", !.room = "error"]

\* The room.once('gameError') handler of call c: reject(error).
gameError(c, rid) ==
    [c EXCEPT !.pc = "failed", !.room = "error",
              !.err = <<"gameError", rid[2], rid[3]>>]

\* The terminal outcomes a GameRoom reports: gameOver with the winning
\* seats, or gameError.
Outcomes ==
    {[type |-> "gameOver", winnerIndices |-> w] : w \in WinnerIndices}
        \cup {[type |-> "gameError", winnerIndices |-> <<>>]}

\* Mutation: summonTable is emitted before the handlers are subscribed, so
\* the outcome reported during its delivery finds no handler.
deliver_unsubscribed(gs, ev, c, rid, out) ==
    [games |-> gs, events |-> ev,
     calls |-> <<[c EXCEPT !.sync = TRUE,
                           !.room = IF out.type = "gameOver" THEN "over"
                                    ELSE "error"]>>]

\* driver.emit('summonTable') during which the room reports out: the
\* handlers were subscribed with once() before the emit, so the one of out
\* runs, within the promise's executor.
deliver(gs, ev, c, rid, out) ==
    IF out.type = "gameOver"
    THEN gameOver(gs, ev, [c EXCEPT !.sync = TRUE], rid, out.winnerIndices)
    ELSE [games |-> gs, events |-> ev,
          calls |-> <<gameError([c EXCEPT !.sync = TRUE], rid)>>]

\* The promises of a run, by the expression that creates them.
\* pStart: the promise the async start() of call d of chain i returns.
pStart(i, d) == <<"S", i, d, 0>>

\* pRoom: return new Promise((resolve, reject) => ...) of that call.
pRoom(i, d) == <<"P", i, d, 0>>

\* pReady: Promise.resolve() of a call that found its game not ready.
pReady(i, d) == <<"F", i, d, 0>>

\* pUser: the promise the async user(id) returns for seat s of that call.
pUser(i, d, s) == <<"X", i, d, s>>

\* pLookup: the promise UserNames.user(id) returns for seat s of that call.
pLookup(i, d, s) == <<"U", i, d, s>>

\* pAll: Promise.all(...) of run() k.
pAll(k) == <<"A", k, 0, 0>>

\* A reaction subscribed to a promise with then():
\*   "adopt"  the resolving functions of promise p, which follows it
\*   "await"  the continuation of the start() whose promise is p
\*   "all"    the element functions of the Promise.all p
\*   "run"    the continuation of the run() that awaits the Promise.all p
Reaction(kind, p) == [kind |-> kind, p |-> p]

\* A job of the microtask queue: a reaction with the settlement it reacts
\* to, or ("thenable") the job that makes promise p follow promise q.
Job(type, p, q, state, err) ==
    [type |-> type, p |-> p, q |-> q, state |-> state, err |-> err]

\* A promise, pending and unresolved.
NewPromise(m, id) ==
    [m EXCEPT !.promises =
        (id :> [state |-> "pending", err |-> NoError, resolved |-> FALSE,
                reactions |-> <<>>]) @@ @]

\* p.then(r): r is kept while p is pending, and queued if p is settled.
then(m, p, r) ==
    IF m.promises[p].state = "pending"
    THEN [m EXCEPT !.promises[p].reactions = Append(@, r)]
    ELSE [m EXCEPT !.jobs = Append(@, Job(r.kind, r.p, p, m.promises[p].state,
                                          m.promises[p].err))]

\* Promise p is fulfilled or rejected: one job per reaction, in the order
\* of their subscription.
settlePromise(m, p, state, err) ==
    LET rs == m.promises[p].reactions
    IN [m EXCEPT !.promises[p] = [state |-> state, err |-> err,
                                  resolved |-> TRUE, reactions |-> <<>>],
                 !.jobs = @ \o [k \in DOMAIN rs |->
                                    Job(rs[k].kind, rs[k].p, p, state, err)]]

\* resolve() and reject(error) of promise p: the first call decides.
fulfill(m, p) ==
    IF m.promises[p].resolved THEN m
    ELSE settlePromise(m, p, "fulfilled", NoError)

reject(m, p, err) ==
    IF m.promises[p].resolved THEN m
    ELSE settlePromise(m, p, "rejected", err)

\* resolve(q), or `return q` of an async function, for a promise q: p is
\* resolved and a job is queued that will subscribe p to q.
resolveWith(m, p, q) ==
    IF m.promises[p].resolved THEN m
    ELSE [m EXCEPT !.promises[p].resolved = TRUE,
                   !.jobs = Append(@, Job("thenable", p, q, "", NoError))]

\* await user(u) for seat s of call d of chain i: a synthetic opponent is
\* named at once, any other user by the lookup the returned promise follows.
user(m, i, d, s, u) ==
    LET m0 == NewPromise(m, pUser(i, d, s))
        m1 == IF isBot(u)
              THEN fulfill(m0, pUser(i, d, s))
              ELSE resolveWith(NewPromise(m0, pLookup(i, d, s)),
                               pUser(i, d, s), pLookup(i, d, s))
    IN then(m1, pUser(i, d, s), Reaction("await", pStart(i, d)))

\* What the body of call c (call d of chain i) did to its promises when it
\* ran up to c.pc; next holds if c went on to start its successor.
returned(m, i, d, c, ts) ==
    IF c.pc = "lookup"
    THEN user(m, i, d, c.seat, SeatUser(ts, c.seat))
    ELSE IF c.pc = "failed" THEN reject(m, pStart(i, d), c.err)
    ELSE IF c.pc = "done"
    THEN resolveWith(fulfill(NewPromise(m, pReady(i, d)), pReady(i, d)),
                     pStart(i, d), pReady(i, d))
    ELSE IF c.pc = "follow" THEN resolveWith(m, pStart(i, d), pStart(i, d + 1))
    ELSE resolveWith(NewPromise(m, pRoom(i, d)), pStart(i, d), pRoom(i, d))

\* The promises of the calls cs that one start() made, cs[1] being call d
\* of chain i: a nested call has returned before its caller does.
RECURSIVE spawn(_, _, _, _, _)
spawn(m, i, d, cs, gs) ==
    IF cs = <<>> THEN m
    ELSE LET inner == spawn(m, i, d + 1, Tail(cs), gs)
         IN returned(NewPromise(inner, pStart(i, d)), i, d, Head(cs),
                     gs[Head(cs).g].teams)

\* What a handler of the GameRoom of call c (call d of chain i) did to the
\* promise of that call: reject(error), resolve(), or
\* resolve(next_game.start(driver)).
handled(m, i, d, c) ==
    IF c.pc = "failed" THEN reject(m, pRoom(i, d), c.err)
    ELSE IF c.pc = "done" THEN fulfill(m, pRoom(i, d))
    ELSE IF c.pc = "follow" THEN resolveWith(m, pRoom(i, d), pStart(i, d + 1))
    ELSE m

\* A handler of the GameRoom of call d of chain i ran and left the calls
\* cs: the call itself, then the calls its start() of the successor made.
outcome(m, i, d, cs, gs) ==
    handled(spawn(m, i, d + 1, Tail(cs), gs), i, d, Head(cs))

\* The element functions of Promise.all: the first rejection to arrive
\* rejects it, the last fulfilment to arrive fulfils it.
promiseAll(m, rs, k, job) ==
    IF job.state = "rejected"
    THEN [m |-> reject(m, pAll(k), job.err), runs |-> rs]
    ELSE [m |-> IF rs[k].remaining = 1 THEN fulfill(m, pAll(k)) ELSE m,
          runs |-> [rs EXCEPT ![k].remaining = @ - 1]]

\* Promise.all(promises): each promise of the list is subscribed, in order.
RECURSIVE subscribeAll(_, _, _, _)
subscribeAll(m, k, first, count) ==
    IF count = 0 THEN m
    ELSE LET n == then(m, pStart(first, 1), Reaction("all", pAll(k)))
         IN Completes(n, subscribeAll(n, k, first + 1, count - 1))

\* The state of the promise the outermost start() of chain i returned.
ChainState(i) == promises[pStart(i, 1)].state

ChainError(i) == promises[pStart(i, 1)].err

-----------------------------------------------------------------------------
(* Operations                                                               *)

\* The synthetic opponents a driver of n teams can hold: pickTeams adds
\* them only to fill the pool up to max_loop's size, so with the three of
\* BotSets the 2n - 3 signups were filled up to 2n identifiers.
BotSetsFor(n) ==
    IF 2 * n >= 3 /\ max_loop((2 * n) - 3, MinPool) = 2 * n
    THEN BotSets
    ELSE {{}}

\* The table signups holding the rows sg of the driver's tournament alone.
Table(sg) == [id \in {t_id} |-> sg]

\* The Scheduler was constructed: its loadToday found the rows and created
\* the instances, nothing was emitted yet and nobody called.
Scheduled(rows, instances) ==
    LET r == loadToday(<<>>, rows, instances, EmptyBag)
    IN /\ tourneys = r.tourneys
       /\ timers = r.timers
       /\ emitted = EmptyBag
       /\ days = 1
       /\ answer = <<>>
       /\ requests = 0

\* The Scheduler loaded the row of the driver's tournament, open to all,
\* and its timers have fired: the signup was opened and closed and the
\* tournament started.
Started ==
    /\ tourneys = <<Tournament(t_id, TRUE, TRUE, TRUE, FALSE, {})>>
    /\ timers = SetToBag({Timer("loadToday", 0)})
    /\ emitted = SetToBag({Notice("signupOpen", t_id, 0, 0),
                           Notice("signupClosed", t_id, 0, 0),
                           Notice("started", t_id, 0, 0)})
    /\ days = 1
    /\ answer = <<>>
    /\ requests = 0

\* A constructed driver of n teams, up to the names of the users: the
\* users that signed up, none with a partner, were shuffled into the order
\* 2n, ..., 1 and the generated names are bs; pair_loop then pops team i
\* as users 2i-1 and 2i.
Constructed(n, bs) ==
    /\ teams = TeamList(n)
    /\ bots = bs
    /\ games = createBracket(TeamList(n)).games
    /\ rounds = createBracket(TeamList(n)).rounds
    /\ chains = <<>>
    /\ runs = <<>>
    /\ promises = <<>>
    /\ jobs = <<>>
    /\ events = EmptyBag
    /\ signups = Table([u \in (1..(2 * n)) \ bs |-> 0])
    /\ host = (IF bs = {} THEN "" ELSE "bots")
    /\ choosePartner = FALSE
    /\ dropped = 0
    /\ observed = [k \in 1..Cardinality((1..(2 * n)) \ bs) |->
                      <<(2 * n) + 1 - k, 0>>]
    /\ built = TRUE
    /\ order = [k \in 1..Cardinality((1..(2 * n)) \ bs) |-> (2 * n) + 1 - k]
    /\ Started

\* The constructor: teams, then the bracket built from them.
Init ==
    \E n \in 0..MaxTeams : \E bs \in BotSetsFor(n) :
        Constructed(n, bs)

\* this.rounds[0].map((game) => game.start(this)): the round-1 games are
\* started in position order, each up to its first suspension.
RECURSIVE startAll(_, _, _, _, _, _)
startAll(gs, ev, ids, k, chs, m) ==
    IF k > Len(ids)
    THEN [games |-> gs, events |-> ev, chains |-> chs, m |-> m]
    ELSE LET r == start(gs, ev, ids[k])
             n == spawn(m, Len(chains) + Len(chs) + 1, 1, r.calls, r.games)
         IN Completes(<<r, n>>, startAll(r.games, r.events, ids, k + 1,
                                         Append(chs, r.calls), n))

\* The chains that were not started by a run().
DirectChains ==
    {i \in DOMAIN chains :
        \A k \in DOMAIN runs :
            i < runs[k].first \/ i >= runs[k].first + runs[k].count}

\* The promises and the queue of jobs, as one value.
Heap == [promises |-> promises, jobs |-> jobs]

\* TournamentDriver.run(), invoked once: the round-1 games are started,
\* Promise.all subscribes to their promises and run() awaits it.
Run ==
    /\ built
    /\ Len(runs) < 1
    /\ IF canceled(rounds)
       THEN /\ runs' = Append(runs, [first |-> Len(chains) + 1, count |-> 0,
                                     remaining |-> 0,
                                     state |-> "rejected", err |-> TypeError])
            /\ UNCHANGED <<games, chains, events, promises, jobs>>
       ELSE LET r == startAll(games, events, rounds[1], 1, <<>>, Heap)
                k == Len(runs) + 1
                n == Len(r.chains)
                m == then(subscribeAll(NewPromise(r.m, pAll(k)), k,
                                       Len(chains) + 1, n),
                          pAll(k), Reaction("run", pAll(k)))
            IN /\ games' = r.games
               /\ events' = r.events
               /\ chains' = chains \o r.chains
               /\ runs' = Append(runs, [first |-> Len(chains) + 1,
                                        count |-> n, remaining |-> n,
                                        state |-> "pending", err |-> NoError])
               /\ promises' = m.promises
               /\ jobs' = m.jobs
    /\ UNCHANGED <<teams, bots, rounds>>
    /\ UNCHANGED tvars

\* game.start(driver) invoked on game g by a caller other than run().
StartDirect(g) ==
    /\ g \in DOMAIN games
    /\ Cardinality(DirectChains) < MaxReentries
    /\ LET r == start(games, events, g)
           m == spawn(Heap, Len(chains) + 1, 1, r.calls, r.games)
       IN /\ games' = r.games
          /\ events' = r.events
          /\ chains' = Append(chains, r.calls)
          /\ promises' = m.promises
          /\ jobs' = m.jobs
    /\ UNCHANGED <<teams, bots, rounds, runs>>
    /\ UNCHANGED tvars

\* The identity lookup the last call of chain i awaits is fulfilled: the
\* promise UserNames.user returned settles, and nothing else happens.
Lookup(i) ==
    /\ i \in DOMAIN chains
    /\ LET d == Len(chains[i])
           c == chains[i][d]
           m == fulfill(Heap, pLookup(i, d, c.seat))
       IN /\ c.pc = "lookup"
          /\ pLookup(i, d, c.seat) \in DOMAIN promises
          /\ promises[pLookup(i, d, c.seat)].state = "pending"
          /\ promises' = m.promises
          /\ jobs' = m.jobs
    /\ UNCHANGED <<teams, bots, games, rounds, chains, runs, events>>
    /\ UNCHANGED tvars

\* The identity lookup the last call of chain i awaits is rejected
\* (UserNames.user; a bot is named without a lookup).
LookupFail(i) ==
    /\ i \in DOMAIN chains
    /\ LET d == Len(chains[i])
           c == chains[i][d]
           u == SeatUser(games[c.g].teams, c.seat)
           m == reject(Heap, pLookup(i, d, c.seat), <<"lookup", u, 0>>)
       IN /\ c.pc = "lookup"
          /\ pLookup(i, d, c.seat) \in DOMAIN promises
          /\ promises[pLookup(i, d, c.seat)].state = "pending"
          /\ promises' = m.promises
          /\ jobs' = m.jobs
    /\ UNCHANGED <<teams, bots, games, rounds, chains, runs, events>>
    /\ UNCHANGED tvars

\* The GameRoom of the last call of chain i reports gameOver.  A GameRoom
\* reports one terminal outcome, gameOver or gameError, and both handlers
\* are registered with once().
GameOver(i, w) ==
    /\ i \in DOMAIN chains
    /\ LET d == Len(chains[i])
           c == chains[i][d]
           r == gameOver(games, events, c, <<c.g, i, d>>, w)
           m == outcome(Heap, i, d, r.calls, r.games)
       IN /\ c.pc = "room"
          /\ games' = r.games
          /\ events' = r.events
          /\ chains' = [chains EXCEPT ![i] = SubSeq(@, 1, d - 1) \o r.calls]
          /\ promises' = m.promises
          /\ jobs' = m.jobs
    /\ UNCHANGED <<teams, bots, rounds, runs>>
    /\ UNCHANGED tvars

\* The GameRoom of the last call of chain i reports gameError.
GameError(i) ==
    /\ i \in DOMAIN chains
    /\ LET d == Len(chains[i])
           c == chains[i][d]
           e == gameError(c, <<c.g, i, d>>)
           m == outcome(Heap, i, d, <<e>>, games)
       IN /\ c.pc = "room"
          /\ chains' = [chains EXCEPT ![i][d] = e]
          /\ promises' = m.promises
          /\ jobs' = m.jobs
    /\ UNCHANGED <<teams, bots, games, rounds, runs, events>>
    /\ UNCHANGED tvars

\* The continuation of call d of chain i after its await settled as job j
\* tells: the next seat's lookup, or the GameRoom, or the rejection.
resume(i, d, j) ==
    LET c   == chains[i][d]
        ts  == games[c.g].teams
        rid == <<c.g, i, d>>
    IN IF j.state = "fulfilled"
       THEN lookup(c, ts, games[c.g].round, rid, events)
       ELSE lookupFailed(c, events, SeatUser(ts, c.seat), rid)

\* The job at the head of the microtask queue runs.
Tick ==
    /\ jobs # <<>>
    /\ LET j == Head(jobs)
           m == [promises |-> promises, jobs |-> Tail(jobs)]
       IN IF j.type = "thenable"
          THEN LET n == then(m, j.q, Reaction("adopt", j.p))
               IN /\ promises' = n.promises
                  /\ jobs' = n.jobs
                  /\ UNCHANGED <<chains, runs, events>>
          ELSE IF j.type = "adopt"
          THEN LET n == settlePromise(m, j.p, j.state, j.err)
               IN /\ promises' = n.promises
                  /\ jobs' = n.jobs
                  /\ UNCHANGED <<chains, runs, events>>
          ELSE IF j.type = "await"
          THEN LET i == j.p[2]
                   d == j.p[3]
                   r == resume(i, d, j)
                   n == returned(m, i, d, r.call,
                                 games[chains[i][d].g].teams)
               IN /\ chains' = [chains EXCEPT ![i][d] = r.call]
                  /\ events' = r.events
                  /\ promises' = n.promises
                  /\ jobs' = n.jobs
                  /\ UNCHANGED runs
          ELSE IF j.type = "all"
          THEN LET n == promiseAll(m, runs, j.p[2], j)
               IN /\ runs' = n.runs
                  /\ promises' = n.m.promises
                  /\ jobs' = n.m.jobs
                  /\ UNCHANGED <<chains, events>>
          ELSE /\ runs' = [runs EXCEPT ![j.p[2]].state = j.state,
                                       ![j.p[2]].err = j.err]
               /\ promises' = m.promises
               /\ jobs' = m.jobs
               /\ UNCHANGED <<chains, events>>
    /\ UNCHANGED <<teams, bots, games, rounds>>
    /\ UNCHANGED tvars

\* The continuation of the last call of chain i runs after its last
\* identity lookup was fulfilled: the GameRoom is created, and while
\* summonTable is delivered the room reports the outcome out.
SummonSync(i, out) ==
    /\ i \in DOMAIN chains
    /\ jobs # <<>>
    /\ LET j   == Head(jobs)
           d   == Len(chains[i])
           c   == chains[i][d]
           rid == <<c.g, i, d>>
           r   == resume(i, d, j)
           s   == deliver(games, r.events, r.call, rid, out)
           m   == NewPromise([promises |-> promises, jobs |-> Tail(jobs)],
                             pRoom(i, d))
           n   == resolveWith(outcome(m, i, d, s.calls, s.games),
                              pStart(i, d), pRoom(i, d))
       IN /\ j.type = "await"
          /\ j.p = pStart(i, d)
          /\ j.state = "fulfilled"
          /\ r.call.pc = "room"
          /\ games' = s.games
          /\ events' = s.events
          /\ chains' = [chains EXCEPT ![i] = SubSeq(@, 1, d - 1) \o s.calls]
          /\ promises' = n.promises
          /\ jobs' = n.jobs
    /\ UNCHANGED <<teams, bots, rounds, runs>>
    /\ UNCHANGED tvars

\* The chains a state can hold.
ChainIds == 1..(MaxTeams + MaxReentries)

\* One run() on the driver; lookups and matches may fail.
Next ==
    \/ Run
    \/ Tick
    \/ \E i \in ChainIds : Lookup(i)
    \/ \E i \in ChainIds : LookupFail(i)
    \/ \E i \in ChainIds, w \in WinnerIndices : GameOver(i, w)
    \/ \E i \in ChainIds : GameError(i)

Spec == Init /\ [][Next]_vars

\* The constructor, for the re-entry model.
InitReentry ==
    \E n \in 4..MaxReentryTeams : \E bs \in BotSetsFor(n) :
        Constructed(n, bs)

\* The games a bracket can hold.
GameIds == 1..(2 * MaxTeams)

\* Re-entry: besides run(), start() is invoked on a game by the driver's
\* holder while the lookups are fulfilled and the matches are in play.
NextReentry ==
    \/ Run
    \/ Tick
    \/ \E g \in GameIds : StartDirect(g)
    \/ \E i \in ChainIds : Lookup(i)

SpecReentry == InitReentry /\ [][NextReentry]_vars

\* Summoning: a run whose GameRooms may report their outcome while
\* summonTable is delivered, or later.
InitSync ==
    \E n \in 4..MaxSyncTeams : \E bs \in BotSetsFor(n) :
        Constructed(n, bs)

NextSync ==
    \/ Run
    \/ Tick
    \/ \E i \in ChainIds : Lookup(i)
    \/ \E i \in ChainIds : LookupFail(i)
    \/ \E i \in ChainIds, out \in Outcomes : SummonSync(i, out)
    \/ \E i \in ChainIds, w \in WinnerIndices : GameOver(i, w)
    \/ \E i \in ChainIds : GameError(i)

SpecSync == InitSync /\ [][NextSync]_vars

\* The constructor, for the examination of the bracket alone.
InitBracket ==
    \E n \in 0..MaxBracketTeams : \E bs \in BotSetsFor(n) :
        Constructed(n, bs)

\* The bracket as built, and as run() finds and leaves it.
NextBracket == Run \/ Tick

SpecBracket == InitBracket /\ [][NextBracket]_vars

\* The signups of users 1 to n a tournament can hold: nobody is their own
\* partner (register asserts user !== partner).
SignupMaps(n) ==
    {sg \in UNION {[S -> 0..n] : S \in SUBSET (1..n)} :
        \A u \in DOMAIN sg : sg[u] # u}

\* The orders _.shuffle can put the users S in: every one.
RECURSIVE shuffles(_)
shuffles(S) ==
    IF S = {}
    THEN {<<>>}
    ELSE UNION {{<<u>> \o perm : perm \in shuffles(S \ {u})} : u \in S}

\* The signups of users 1 to n of whom only the first MaxFillPartners may
\* have declared a partner, one of themselves.
FillMaps(n) ==
    LET first == 1..(IF n < MaxFillPartners THEN n ELSE MaxFillPartners)
    IN {[u \in 1..n |-> IF u \in first THEN sg[u] ELSE 0] :
           sg \in {f \in [first -> {0} \cup first] :
                      \A u \in first : f[u] # u}}

\* The orders of the users 1 to n the shuffle is drawn from.
Orders(n) == shuffles(1..n)

\* Array.from(entries) after _.shuffle: the users S in the order ord.
shuffled(ord, S) == SelectSeq(ord, LAMBDA u : u \in S)

\* A tournament of users 1 to n whose driver is yet to be constructed, the
\* table signups being one of tables.
Unconstructed(n, tables) ==
    /\ signups \in tables
    /\ host \in {"", "bots"}
    /\ choosePartner \in BOOLEAN
    /\ order \in Orders(n)
    /\ built = FALSE
    /\ teams = <<>>
    /\ bots = {}
    /\ games = <<>>
    /\ rounds = <<>>
    /\ dropped = 0
    /\ observed = <<>>
    /\ chains = <<>>
    /\ runs = <<>>
    /\ promises = <<>>
    /\ jobs = <<>>
    /\ events = EmptyBag

\* new TournamentDriver(t): pickTeams over the signups of this instant,
\* shuffled into their order, then createBracket over its teams.
Construct ==
    /\ ~built
    /\ LET entries == shuffle(signups[t_id],
                              shuffled(order, DOMAIN signups[t_id]))
       IN \E pick \in samples(entries, host, choosePartner) :
              LET r == pickTeams(entries, host, choosePartner, pick)
              IN /\ pickTeams_asserts(entries, host, choosePartner, pick)
                 /\ createBracket_asserts(r.teams)
                 /\ teams' = r.teams
                 /\ dropped' = r.dropped
                 /\ bots' = r.bots
                 /\ games' = createBracket(r.teams).games
                 /\ rounds' = createBracket(r.teams).rounds
                 /\ observed' = entries
    /\ built' = TRUE
    /\ UNCHANGED <<signups, host, choosePartner, chains, runs, promises, jobs,
                   events, order, tourneys, emitted, timers, days, answer,
                   requests>>

\* Scheduler.register(id, user, partner) is called.
Register(id, u, p) ==
    /\ requests < MaxSignupCalls
    /\ LET r == register(tourneys, signups, emitted, id, u, p)
       IN /\ signups' = r.signups
          /\ emitted' = r.emitted
          /\ answer' = r.answer
    /\ requests' = requests + 1
    /\ UNCHANGED <<teams, bots, games, rounds, chains, runs, promises, jobs,
                   events, host, choosePartner, dropped, observed, built,
                   order, tourneys, timers, days>>

\* Scheduler.unregister(id, user) is called.
Unregister(id, u) ==
    /\ requests < MaxSignupCalls
    /\ LET r == unregister(tourneys, signups, emitted, id, u)
       IN /\ signups' = r.signups
          /\ emitted' = r.emitted
          /\ answer' = r.answer
    /\ requests' = requests + 1
    /\ UNCHANGED <<teams, bots, games, rounds, chains, runs, promises, jobs,
                   events, host, choosePartner, dropped, observed, built,
                   order, tourneys, timers, days>>

\* The identifiers of the tournaments of this.tourneys.
ScheduledIds == {tourneys[k].id : k \in DOMAIN tourneys}

\* The pending timer of tournament id fires and its handler runs, leaving
\* the tournament as r.t, the notifications as r.emitted and the pending
\* timers as r.timers.
Fired(id, r) ==
    /\ tourneys' = [k \in DOMAIN tourneys |->
                       IF tourneys[k].id = id THEN r.t ELSE tourneys[k]]
    /\ emitted' = r.emitted
    /\ timers' = r.timers
    /\ UNCHANGED <<teams, bots, games, rounds, chains, runs, promises, jobs,
                   events, signups, host, choosePartner, dropped, observed,
                   built, order, days, answer, requests>>

\* A timer of openSignup fires.
OpenSignup(id) ==
    /\ BagIn(Timer("openSignup", id), timers)
    /\ Fired(id, openSignup(tourneys_get(tourneys, id), emitted,
                            timers (-) SetToBag({Timer("openSignup", id)})))

\* A timer of closeSignup fires.
CloseSignup(id) ==
    /\ BagIn(Timer("closeSignup", id), timers)
    /\ Fired(id, closeSignup(tourneys_get(tourneys, id), emitted,
                             timers (-) SetToBag({Timer("closeSignup", id)})))

\* A timer of start fires.
SchedulerStart(id) ==
    /\ BagIn(Timer("start", id), timers)
    /\ Fired(id, schedulerStart(tourneys_get(tourneys, id), emitted,
                                timers (-) SetToBag({Timer("start", id)})))

\* The identifier the database gives the tournament saved for day d, a
\* new one: the identifiers 1 to 3 are taken.
DayId(d) == d + 2

\* What the database holds for day d, the second or a later one: no
\* tournament, or the row of one open to all, or a recurring tournament by
\* invitation of which an instance is created.  A row of that day was
\* never loaded before, its start_dt being of that day.
DayLoads(d) ==
    {[rows |-> <<>>, instances |-> <<>>],
     [rows |-> <<Tournament(DayId(d), FALSE, FALSE, FALSE, FALSE, {})>>,
      instances |-> <<>>],
     [rows |-> <<>>,
      instances |-> <<createRecurringInstance(DayId(d), TRUE)>>]}

\* The timer of loadToday fires, on one of the first MaxDays days.
LoadToday ==
    /\ BagIn(Timer("loadToday", 0), timers)
    /\ days < MaxDays
    /\ \E day \in DayLoads(days + 1) :
          LET r == loadToday(tourneys, day.rows, day.instances,
                             timers (-) SetToBag({Timer("loadToday", 0)}))
          IN /\ tourneys' = r.tourneys
             /\ timers' = r.timers
    /\ days' = days + 1
    /\ UNCHANGED <<teams, bots, games, rounds, chains, runs, promises, jobs,
                   events, signups, host, choosePartner, dropped, observed,
                   built, order, emitted, answer, requests>>

\* Team formation: a driver is constructed over the signups of up to
\* MaxUsers users and run() is invoked.
InitTeams ==
    /\ Unconstructed(MaxUsers, {Table(sg) : sg \in SignupMaps(MaxUsers)})
    /\ Started

NextTeams ==
    \/ Construct
    \/ Run

SpecTeams == InitTeams /\ [][NextTeams]_vars

\* The row of the driver's tournament as the Scheduler loads it
\* (todaysTournaments: neither started nor finished, the signup flags as
\* the row has them), open to all or by invitation of user 1.
Loaded ==
    {Tournament(t_id, opened, closed, FALSE, invitation,
                IF invitation THEN {1} ELSE {}) :
        opened \in BOOLEAN, closed \in BOOLEAN, invitation \in BOOLEAN}

\* The identifier of the other tournament of the first day.
OtherId == 3

\* The other tournament of the first day, loaded with its signup open.
OtherTourney == Tournament(OtherId, TRUE, FALSE, FALSE, FALSE, {})

\* The identifiers register and unregister are called with: those of the
\* tournaments the database holds on some day, and 2, that of none.
TourneyIds == 1..DayId(MaxDays)

\* The identifiers of the tournaments the database holds on some day.
RowIds == TourneyIds \ {2}

\* The table signups on the first day: the signups of the driver's
\* tournament, of up to MaxSignupUsers users; none for the other tournament
\* of that day, or that of user MaxSignupUsers; none for a later day's.
SignupTables ==
    {[id \in RowIds |->
         IF id = t_id THEN sg ELSE IF id = OtherId THEN oth ELSE <<>>] :
        sg \in SignupMaps(MaxSignupUsers),
        oth \in {<<>>, [u \in {MaxSignupUsers} |-> 0]}}

\* User u can have signed up to tournament tt: register admitted it.
Admitted(tt, tn, sg, u) ==
    /\ tt.signup_opened
    /\ tt.invitation => u \in tt.invitees
    /\ registeredElsewhere(tn, sg, tt.id, u) = 0

\* The Scheduler was constructed and loaded the row of the driver's
\* tournament and, if somebody signed up to it, the other tournament of
\* the first day; whoever signed up to the driver's tournament was
\* admitted by register.
FirstDay ==
    \E first \in Loaded :
        /\ Scheduled(<<first>> \o (IF signups[OtherId] = <<>>
                                   THEN <<>>
                                   ELSE <<OtherTourney>>),
                     <<>>)
        /\ \A u \in DOMAIN signups[t_id] :
              Admitted(first, tourneys, signups, u)

\* The winning seats the matches of the signup model report.
SignupWinners == {<<0, 2>>}

\* Signups: users sign up to the tournaments of the Scheduler and withdraw
\* while a driver is constructed for one of them, of up to MaxSignupUsers
\* users, and run() is invoked, its lookups are fulfilled and its matches
\* report gameOver.  Partner choice is on and the shuffle leaves the users
\* in the order of their identifiers.
InitSignups ==
    /\ Unconstructed(MaxSignupUsers, SignupTables)
    /\ choosePartner
    /\ order = [k \in 1..MaxSignupUsers |-> k]
    /\ FirstDay

NextSignups ==
    \/ Construct
    \/ \E id \in TourneyIds : \E u, p \in 0..MaxSignupUsers :
          Register(id, u, p)
    \/ \E id \in TourneyIds : \E u \in 0..MaxSignupUsers : Unregister(id, u)
    \/ Run
    \/ Tick
    \/ \E i \in ChainIds : Lookup(i)
    \/ \E i \in ChainIds, w \in SignupWinners : GameOver(i, w)

SpecSignups == InitSignups /\ [][NextSignups]_vars

\* The Scheduler: it loads the tournaments of each day, its timers open
\* and close their signups and start them, users sign up and withdraw; no
\* driver is constructed.
InitScheduler ==
    /\ Unconstructed(MaxSignupUsers, SignupTables)
    /\ host = ""
    /\ ~choosePartner
    /\ order = [k \in 1..MaxSignupUsers |-> k]
    /\ FirstDay

NextScheduler ==
    \/ LoadToday
    \/ \E id \in ScheduledIds : OpenSignup(id)
    \/ \E id \in ScheduledIds : CloseSignup(id)
    \/ \E id \in ScheduledIds : SchedulerStart(id)
    \/ \E id \in TourneyIds : \E u, p \in 0..MaxSignupUsers :
          Register(id, u, p)
    \/ \E id \in TourneyIds : \E u \in 0..MaxSignupUsers : Unregister(id, u)

SpecScheduler == InitScheduler /\ [][NextScheduler]_vars

\* Pool filling: a driver is constructed over the signups of up to
\* MaxFillUsers users and run() is invoked.
InitFill ==
    /\ \E n \in 0..MaxFillUsers :
          /\ signups \in {Table(sg) : sg \in FillMaps(n)}
          /\ order \in Orders(n)
    /\ host \in {"", "bots"}
    /\ choosePartner \in BOOLEAN
    /\ built = FALSE
    /\ teams = <<>>
    /\ bots = {}
    /\ games = <<>>
    /\ rounds = <<>>
    /\ dropped = 0
    /\ observed = <<>>
    /\ chains = <<>>
    /\ runs = <<>>
    /\ promises = <<>>
    /\ jobs = <<>>
    /\ events = EmptyBag
    /\ Started

NextFill ==
    \/ Construct
    \/ Run

SpecFill == InitFill /\ [][NextFill]_vars

\* Every lookup is fulfilled and every match reports gameOver.
NextLive ==
    \/ Run
    \/ Tick
    \/ \E i \in ChainIds : Lookup(i)
    \/ \E i \in ChainIds, w \in WinnerIndices : GameOver(i, w)

\* A pending lookup or a live match does not stay pending forever.
Progress ==
    \/ Tick
    \/ \E i \in ChainIds : Lookup(i)
    \/ \E i \in ChainIds, w \in WinnerIndices : GameOver(i, w)

SpecLive == Init /\ [][NextLive]_vars /\ WF_vars(Progress)

-----------------------------------------------------------------------------
(* Properties                                                               *)

\* The emitted notifications of one type, and how many were emitted.
EventsOf(type) == {e \in BagToSet(events) : e.type = type}

EventCount(type) ==
    BagCardinality([e \in EventsOf(type) |-> CopiesIn(e, events)])

\* The game of the last round.
FinalGame == rounds[Len(rounds)][1]

\* The start() invocations made on game g.
CallsOf(g) == {id \in CallIds : CallAt(id).g = g}

\* A start() invocation that returned without doing anything.
Noop(c) == c.pc = "done" /\ c.room = "none" /\ c.table = <<>>

\* Game p has pushed a team into its successor: a bye game that was
\* started, or a game whose match reported gameOver.
Pushed(p) ==
    \E i \in DOMAIN chains : \E d \in DOMAIN chains[i] :
        /\ chains[i][d].g = p
        /\ bye(games[p].teams) # Undefined \/ chains[i][d].room = "over"

\* The run whose Promise.all holds chain i.
RunOf(i) ==
    CHOOSE k \in DOMAIN runs :
        i >= runs[k].first /\ i < runs[k].first + runs[k].count

\* C1: in a run of a bracket of at least four teams, tournamentOver is
\* emitted at most once, only by the gameOver handler of the game without
\* successor (the last round's), and exactly once when that game's match
\* has reported success; a run in which every match succeeded has emitted it.
C1_TournamentOverOnce ==
    Len(teams) >= 4 =>
        /\ EventCount("tournamentOver") <= 1
        /\ \A e \in EventsOf("tournamentOver") :
              /\ e.room[1] = FinalGame
              /\ games[e.room[1]].next_game = 0
              /\ CallAt(<<e.room[2], e.room[3]>>).room = "over"
        /\ EventCount("tournamentOver") =
              (IF \E id \in CallsOf(FinalGame) : CallAt(id).room = "over"
               THEN 1 ELSE 0)
        /\ (/\ runs # <<>>
            /\ \A id \in CallIds : CallAt(id).pc \in {"done", "follow"})
              => EventCount("tournamentOver") = 1

\* C1 witness: every match of a five-team bracket succeeded and the
\* notification was emitted.
C1_Witness ==
    /\ Len(teams) = 5
    /\ EventCount("tournamentOver") = 1
    /\ \A g \in DOMAIN games :
          bye(games[g].teams) = Undefined =>
              \E id \in CallsOf(g) : CallAt(id).room = "over"

\* C2: in a run, a game of a later round is started once per predecessor
\* that resolved; of the two start() calls exactly one is a no-op and only
\* the other goes on to create the match, and no game has more than one
\* GameRoom.
C2_OneCreator ==
    \A g \in DOMAIN games :
        LET calls == CallsOf(g)
            rooms == {id \in calls : CallAt(id).room # "none"}
        IN /\ Cardinality(rooms) <= 1
           /\ games[g].round >= 2 =>
                 /\ Cardinality(calls) =
                       Cardinality({p \in {games[g].previous_games[1],
                                           games[g].previous_games[2]} :
                                       Pushed(p)})
                 /\ calls # {} =>
                       Cardinality({id \in calls : Noop(CallAt(id))}) = 1
                 /\ \A id \in rooms : ~Noop(CallAt(id))

\* C2 witness: both predecessors of a later-round game have called start()
\* on it: one call was a no-op, the other created the match.
C2_Witness ==
    \E g \in DOMAIN games :
        /\ games[g].round >= 2
        /\ Cardinality(CallsOf(g)) = 2
        /\ Cardinality(RoomsOf(g)) = 1
        /\ \E id \in CallsOf(g) : Noop(CallAt(id))

\* C3 (as claimed): a start() invoked on a game that holds two real teams
\* and a live match creates no further GameRoom.
C3_StartActiveIdempotent ==
    \A id \in CallIds : CallAt(id).active => CallAt(id).room = "none"

\* C4 (as claimed): however often a round-1 game holding the bye is
\* started, its surviving team is in the successor's team list at most once
\* and each of its real users is announced the bye at most once.
C4_ByeStartIdempotent ==
    \A g \in DOMAIN games :
        (games[g].round = 1 /\ bye(games[g].teams) # Undefined) =>
            LET b  == bye(games[g].teams)
                ts == games[games[g].next_game].teams
            IN /\ Cardinality({k \in DOMAIN ts : ts[k] = b}) <= 1
               /\ \A e \in EventsOf("announceBye") :
                     e.user \in {b[1], b[2]} => CopiesIn(e, events) <= 1

\* C5: a GameRoom exists for a game only if the game's team list holds
\* exactly two teams, neither the bye, the table seats their four users,
\* and both predecessors of the game have pushed their team.
C5_RoomNeedsTwoTeams ==
    \A id \in CallIds :
        CallAt(id).room # "none" =>
            LET game == games[CallAt(id).g]
            IN /\ Len(game.teams) = 2
               /\ Bye \notin {game.teams[1], game.teams[2]}
               /\ CallAt(id).table = <<game.teams[1][1], game.teams[2][1],
                                       game.teams[1][2], game.teams[2][2]>>
               /\ \A k \in DOMAIN game.previous_games :
                     Pushed(game.previous_games[k])

\* C5 witness: a match was created for a game of a later round.
C5_Witness ==
    \E id \in CallIds :
        CallAt(id).room # "none" /\ games[CallAt(id).g].round >= 2

\* Every queued job has run: each settlement has reached the promises
\* that follow it.
Quiet == jobs = <<>>

\* The calls whose GameRoom reported gameError.
MatchFailures == {id \in CallIds : CallAt(id).room = "error"}

\* The calls of the chains of run k whose start() was rejected.
FailuresOf(k) ==
    {id \in CallIds : RunOf(id[1]) = k /\ CallAt(id).pc = "failed"}

\* What the gameError handler of the last call of chain i does: it rejects
\* the promise of that call with the error, and changes no game, no
\* notification and no other call.
GameErrorStep(i) ==
    LET d == Len(chains[i])
    IN /\ promises'[pRoom(i, d)].state = "rejected"
       /\ promises'[pRoom(i, d)].err = <<"gameError", i, d>>
       /\ chains'[i][d].err = <<"gameError", i, d>>
       /\ games' = games
       /\ events' = events
       /\ \A j \in DOMAIN chains : j # i => chains'[j] = chains[j]
       /\ \A e \in 1..(d - 1) : chains'[i][e] = chains[i][e]

\* C6 (as claimed): when a match reports gameError, the chain that started
\* its game is rejected and run() is rejected with that error, once the
\* queued jobs have run, and the step changes no game and no other chain.
C6_FailureRejectsRunWithIt ==
    /\ [](Quiet =>
            \A id \in MatchFailures :
                /\ ChainState(id[1]) = "rejected"
                /\ runs[RunOf(id[1])].state = "rejected"
                /\ runs[RunOf(id[1])].err = CallAt(id).err)
    /\ [][\A i \in ChainIds : GameError(i) => GameErrorStep(i)]_vars

\* C6 (amended): when a match reports gameError, the promise of its call is
\* rejected with that error and no game and no other chain changes; run()
\* is never fulfilled afterwards, and once the queued jobs have run the
\* chain is rejected with that error and run() is rejected with the error
\* of one of its failed calls: with that error if no other call failed.
C6_FailureRejectsRun ==
    /\ [](\A id \in MatchFailures :
            /\ runs[RunOf(id[1])].state # "fulfilled"
            /\ Quiet =>
                  /\ ChainState(id[1]) = "rejected"
                  /\ ChainError(id[1]) = CallAt(id).err
                  /\ runs[RunOf(id[1])].state = "rejected"
                  /\ \E f \in FailuresOf(RunOf(id[1])) :
                        runs[RunOf(id[1])].err = CallAt(f).err
                  /\ FailuresOf(RunOf(id[1])) = {id} =>
                        runs[RunOf(id[1])].err = CallAt(id).err)
    /\ [][\A i \in ChainIds : GameError(i) => GameErrorStep(i)]_vars

\* C6 witness: the match of a later-round game failed, the queued jobs
\* have run, run() is rejected with its error, and a sibling match is
\* still live.
C6_Witness ==
    \E id \in CallIds :
        /\ CallAt(id).room = "error"
        /\ games[CallAt(id).g].round >= 2
        /\ Quiet
        /\ runs[1].state = "rejected"
        /\ runs[1].err = CallAt(id).err
        /\ \E other \in CallIds : CallAt(other).room = "live"

\* C7: run() is fulfilled only once the final game's match has reported
\* gameOver and tournamentOver has been emitted.
C7_ResolvedAfterTournamentOver ==
    \A k \in DOMAIN runs :
        runs[k].state = "fulfilled" =>
            /\ EventCount("tournamentOver") = 1
            /\ \E id \in CallsOf(FinalGame) : CallAt(id).room = "over"

\* C7 witness: run() is fulfilled, while the chain of at least one
\* round-1 game ended in a no-op start of its successor.
C7_Witness ==
    /\ runs # <<>>
    /\ runs[1].state = "fulfilled"
    /\ \E i \in DOMAIN chains :
          Noop(chains[i][Len(chains[i])]) /\ Len(chains[i]) = 2

\* The run has completed: every game but the last has pushed its winner,
\* every game holds two teams, tournamentOver was emitted and run() is
\* fulfilled.
Completed ==
    /\ runs # <<>>
    /\ runs[1].state = "fulfilled"
    /\ EventCount("tournamentOver") = 1
    /\ \A g \in DOMAIN games :
          /\ Len(games[g].teams) = 2
          /\ g # FinalGame => Pushed(g)

\* C8: for a bracket of at least four teams, if every lookup is fulfilled
\* and every match reports gameOver, a started run completes.
C8_RunCompletes ==
    (Len(teams) >= 4 /\ runs # <<>>) ~> Completed

\* C8 witness: the run of a bracket with byes has completed.
C8_Witness ==
    /\ Len(teams) = 5
    /\ Completed

\* C9 (as claimed): run() on a canceled driver is fulfilled and emits
\* nothing.
C9_CanceledRunFulfilled ==
    \A k \in DOMAIN runs :
        canceled(rounds) =>
            runs[k].state = "fulfilled" /\ events = EmptyBag

\* C10: with fewer than four teams the games map and the rounds are empty
\* and the driver is canceled; with four or more the rounds are not empty
\* and the driver is not canceled.
C10_CanceledIffFewTeams ==
    /\ Len(teams) < 4 =>
          games = <<>> /\ rounds = <<>> /\ canceled(rounds)
    /\ Len(teams) >= 4 =>
          rounds # <<>> /\ DOMAIN games # {} /\ ~canceled(rounds)

\* C10 witness: a driver built from three teams, canceled.
C10_Witness ==
    Len(teams) = 3 /\ canceled(rounds) /\ DOMAIN games = {}

\* The number of round-1 games (game_count) of the built bracket.
GameCount == Len(rounds[1])

\* The round-1 games that hold the bye.
ByeGames == {g \in DOMAIN games :
                games[g].round = 1 /\ \E k \in DOMAIN games[g].teams :
                                          games[g].teams[k] = Bye}

\* x is one of 1, 2, 4, 8, ...
RECURSIVE IsPowerOfTwo(_)
IsPowerOfTwo(x) ==
    IF x <= 1 THEN x = 1 ELSE x % 2 = 0 /\ IsPowerOfTwo(x \div 2)

\* C11: for at least four teams, game_count is the smallest of 2, 4, 8, ...
\* with N <= 2 * game_count, and the byes, 2 * game_count - N of them,
\* are fewer than game_count (N = 4: 2 games, no bye; N = 5: 4 games, 3 byes).
C11_GameCountAndByes ==
    Len(teams) >= 4 =>
        LET N    == Len(teams)
            byes == (2 * GameCount) - N
        IN /\ GameCount >= 2 /\ IsPowerOfTwo(GameCount)
           /\ N <= 2 * GameCount
           /\ GameCount > 2 => N > GameCount
           /\ Cardinality(ByeGames) = byes
           /\ 2 * GameCount = N + byes
           /\ 0 <= byes /\ byes < GameCount
           /\ N = 4 => GameCount = 2 /\ byes = 0
           /\ N = 5 => GameCount = 4 /\ byes = 3

\* C11 witness: a bracket of five teams, with four round-1 games and three
\* byes.
C11_Witness ==
    Len(teams) = 5 /\ GameCount = 4 /\ Cardinality(ByeGames) = 3

\* C13: for at least four teams there are log2(game_count) + 1 rounds,
\* round r holds game_count / 2^(r-1) games, the last exactly one; the games
\* map holds the ids 1 .. 2 * game_count - 1, numbered round by round and
\* by position within the round.
C13_RoundsAndIds ==
    Len(teams) >= 4 =>
        /\ pow2(Len(rounds) - 1) = GameCount
        /\ \A r \in DOMAIN rounds : Len(rounds[r]) * pow2(r - 1) = GameCount
        /\ Len(rounds[Len(rounds)]) = 1
        /\ DOMAIN games = 1..((2 * GameCount) - 1)
        /\ \A r \in DOMAIN rounds : \A i \in DOMAIN rounds[r] :
              /\ rounds[r][i] = ((2 * GameCount) - (2 * Len(rounds[r]))) + i
              /\ games[rounds[r][i]].id = rounds[r][i]
              /\ games[rounds[r][i]].round = r
        /\ Len(teams) = 4 => DOMAIN games = {1, 2, 3}

\* C13 witness: a bracket of four rounds, with the ids 1 .. 15.
C13_Witness ==
    Len(rounds) = 4 /\ DOMAIN games = 1..15 /\ rounds[4] = <<15>>

\* C14: round-1 games have no predecessors; the game at position i of a
\* later round has the games at positions 2i and 2i+1 of the round before
\* as its predecessors, and is the next_game of exactly these two; only the
\* game of the last round has no next_game.
C14_Links ==
    \A r \in DOMAIN rounds : \A i \in DOMAIN rounds[r] :
        LET game == games[rounds[r][i]]
        IN /\ r = 1 => game.previous_games = <<>>
           /\ r >= 2 =>
                 /\ game.previous_games =
                       <<rounds[r - 1][(2 * i) - 1], rounds[r - 1][2 * i]>>
                 /\ {p \in DOMAIN games : games[p].next_game = game.id} =
                       {rounds[r - 1][(2 * i) - 1], rounds[r - 1][2 * i]}
           /\ r < Len(rounds) => game.next_game \in DOMAIN games
           /\ r < Len(rounds) => games[game.next_game].round = r + 1
           /\ r = Len(rounds) => game.next_game = 0

\* C14 witness: in a bracket of three rounds the final game has the two
\* games of round 2 as its predecessors.
C14_Witness ==
    /\ Len(rounds) = 3
    /\ games[7].previous_games = <<5, 6>>
    /\ games[5].next_game = 7 /\ games[6].next_game = 7
    /\ games[7].next_game = 0

\* C12: for at least four teams exactly 2 * game_count - N round-1 games
\* hold the bye (three for N = 5), each is marked started and finished, and
\* in a run none of them gets a GameRoom, awaits a lookup or has a
\* summonTable emitted.
C12_ByeGamesNeverPlay ==
    Len(teams) >= 4 =>
        /\ Cardinality(ByeGames) = (2 * GameCount) - Len(teams)
        /\ Len(teams) = 5 => Cardinality(ByeGames) = 3
        /\ \A g \in ByeGames :
              /\ games[g].started /\ games[g].finished
              /\ \A i \in DOMAIN chains : \A d \in DOMAIN chains[i] :
                    chains[i][d].g = g =>
                        /\ chains[i][d].room = "none"
                        /\ chains[i][d].pc \notin {"lookup", "room"}
              /\ \A e \in EventsOf("summonTable") : e.room[1] # g
        /\ \A g \in DOMAIN games :
              (games[g].started \/ games[g].finished) => g \in ByeGames

\* C12 witness: the run of a five-team bracket has finished; its three bye
\* games were started and none has a GameRoom.
C12_Witness ==
    /\ Len(teams) = 5
    /\ Cardinality(ByeGames) = 3
    /\ EventCount("tournamentOver") = 1
    /\ \A g \in ByeGames : CallsOf(g) # {} /\ RoomsOf(g) = {}

\* C15: once run() has started the round-1 games, every bye game has pushed
\* its surviving team into its successor, so no GameRoom exists before
\* that; a round-2 game whose predecessors both hold the bye then holds both
\* surviving teams and its start() has gone on to create the match, and no
\* bye game ever has a GameRoom.
C15_ByesAdvanceFirst ==
    /\ chains = <<>> => \A g \in DOMAIN games : Len(games[g].teams) \in {0, 2}
    /\ chains # <<>> =>
          \A g \in ByeGames :
              LET n  == games[g].next_game
                  p1 == games[n].previous_games[1]
                  p2 == games[n].previous_games[2]
              IN /\ \E k \in DOMAIN games[n].teams :
                        games[n].teams[k] = bye(games[g].teams)
                 /\ RoomsOf(g) = {}
                 /\ {p1, p2} \subseteq ByeGames =>
                       /\ games[n].teams = <<bye(games[p1].teams),
                                             bye(games[p2].teams)>>
                       /\ Cardinality(CallsOf(n)) = 2
                       /\ \E id \in CallsOf(n) :
                             CallAt(id).pc \in {"lookup", "room", "follow",
                                                "failed"}
    /\ (\E id \in CallIds : CallAt(id).room # "none") => chains # <<>>

\* C15 witness: in a five-team bracket the round-2 game fed by two bye games
\* has its GameRoom while the only real round-1 match has not been created.
C15_Witness ==
    /\ Len(teams) = 5
    /\ \E id \in CallsOf(5) : CallAt(id).room = "live"
    /\ RoomsOf(3) = {}
    /\ RoomsOf(1) = {} /\ RoomsOf(2) = {}

\* The announcements a started bye game makes.
ByeAnnouncements(g) ==
    {Event("announceBye", games[g].round, u, <<>>, <<>>) :
        u \in {v \in {bye(games[g].teams)[1], bye(games[g].teams)[2]} :
                  ~isBot(v)}}

\* C16: in a run, announceBye is emitted exactly once, with the game's
\* round, for each user of a bye game's surviving team that is no synthetic
\* opponent, and for nobody else; without byes it is never emitted.
C16_ByeAnnouncements ==
    /\ EventsOf("announceBye") =
          UNION {ByeAnnouncements(g) : g \in {b \in ByeGames : CallsOf(b) # {}}}
    /\ \A e \in EventsOf("announceBye") : CopiesIn(e, events) = 1
    /\ chains # <<>> => \A g \in ByeGames : CallsOf(g) # {}
    /\ ByeGames = {} => EventCount("announceBye") = 0

\* C16 witness: five teams: the byes of teams <<1, 2>>, <<3, 4>> and
\* <<5, 6>> were announced to their six users, once each, and to nobody of
\* the two teams that play.
C16_Witness ==
    /\ Len(teams) = 5
    /\ {e.user : e \in EventsOf("announceBye")} = {1, 2, 3, 4, 5, 6}
    /\ EventCount("announceBye") = 6

\* C16 witness of the bracket without byes: four teams, three of their
\* users synthetic, the tournament is over and no bye was announced.
C16_NoByeWitness ==
    /\ Len(teams) = 4
    /\ bots # {}
    /\ EventCount("tournamentOver") = 1
    /\ EventCount("announceBye") = 0

\* The calls whose start() was rejected by a failed identity lookup.
LookupFailures ==
    {id \in CallIds : CallAt(id).err # NoError /\ CallAt(id).err[1] = "lookup"}

\* The job at the head of the queue resumes the last call of chain i
\* with the rejection of the lookup it awaits.
LookupThrows(i) ==
    /\ i \in DOMAIN chains
    /\ jobs # <<>>
    /\ Head(jobs).type = "await"
    /\ Head(jobs).state = "rejected"
    /\ Head(jobs).p = pStart(i, Len(chains[i]))

\* C20: when the identity lookup of a seat fails, the failure itself
\* changes no game, notification or call, and the await that receives it
\* rejects that start() with the lookup's error, without a GameRoom and
\* without a summonTable for its game, changing no game, emitting nothing
\* and leaving every other call as it was; every match that is live in a
\* state with a failed lookup can still report gameOver.
C20_LookupFailureIsLocal ==
    /\ [](\A id \in LookupFailures :
             /\ CallAt(id).pc = "failed"
             /\ CallAt(id).room = "none"
             /\ RoomsOf(CallAt(id).g) = {}
             /\ promises[pStart(id[1], id[2])].state = "rejected"
             /\ promises[pStart(id[1], id[2])].err = CallAt(id).err
             /\ \A e \in EventsOf("summonTable") : e.room[1] # CallAt(id).g)
    /\ [](LookupFailures # {} =>
             \A i \in DOMAIN chains :
                 chains[i][Len(chains[i])].pc = "room" =>
                     ENABLED GameOver(i, <<0, 2>>))
    /\ [][\A i \in ChainIds :
             /\ LookupFail(i) =>
                   /\ games' = games
                   /\ events' = events
                   /\ chains' = chains
                   /\ runs' = runs
             /\ (LookupThrows(i) /\ Tick) =>
                   /\ Len(chains'[i]) = Len(chains[i])
                   /\ <<i, Len(chains[i])>> \in LookupFailures'
                   /\ games' = games
                   /\ events' = events
                   /\ runs' = runs
                   /\ \A j \in DOMAIN chains :
                         j # i => chains'[j] = chains[j]]_vars

\* C20 witness: the start() of a round-1 game was rejected by a failed
\* lookup, and in the other half of the bracket a round-2 match has
\* reported gameOver and pushed its winners into the final.
C20_Witness ==
    \E id \in LookupFailures : \E other \in CallIds :
        /\ games[CallAt(id).g].round = 1
        /\ CallAt(other).room = "over"
        /\ games[CallAt(other).g].round = 2
        /\ CallAt(other).g # games[CallAt(id).g].next_game
        /\ Len(games[games[CallAt(other).g].next_game].teams) = 1

\* The identifiers pickTeams pooled: the signups it read and the names it
\* generated.
Pool == {observed[k][1] : k \in DOMAIN observed} \cup bots

\* The places identifier x holds in the team list.
Seats(x) == {jk \in (DOMAIN teams) \X {1, 2} : teams[jk[1]][jk[2]] = x}

\* The identifiers on the teams.
TeamUsers == UNION {{teams[j][1], teams[j][2]} : j \in DOMAIN teams}

\* Every pooled identifier is on exactly one team or is the dropped one,
\* nobody else is on a team, and one is dropped iff the pool is odd.
PoolPartitioned ==
    /\ \A x \in Pool :
          \/ Cardinality(Seats(x)) = 1 /\ x # dropped
          \/ Seats(x) = {} /\ x = dropped
    /\ TeamUsers \subseteq Pool
    /\ dropped # 0 => dropped \in Pool
    /\ dropped # 0 <=> Cardinality(Pool) % 2 = 1

\* C17 (as claimed): after team formation every pooled identifier is on
\* exactly one team or is the dropped one, one is dropped iff the pool is
\* odd, zero signups give no team and no drop, and a single signup gives
\* no team and that user dropped.
C17_PoolPartitionedAndEdges ==
    built =>
        /\ PoolPartitioned
        /\ Len(observed) = 0 => teams = <<>> /\ dropped = 0
        /\ Len(observed) = 1 => teams = <<>> /\ dropped = observed[1][1]

\* C17 (amended): after team formation every pooled identifier is on
\* exactly one team or is the dropped one and one is dropped iff the pool
\* is odd; without synthetic fill zero signups give no team and no drop and
\* a single signup gives no team and that user dropped, while with
\* synthetic fill they give the teams of a pool of MinPool and no drop.
C17_PoolPartitioned ==
    built =>
        /\ PoolPartitioned
        /\ host # "bots" =>
              /\ Len(observed) = 0 => teams = <<>> /\ dropped = 0
              /\ Len(observed) = 1 => teams = <<>> /\ dropped = observed[1][1]
        /\ (host = "bots" /\ Len(observed) <= 1) =>
              /\ 2 * Len(teams) = MinPool
              /\ dropped = 0
              /\ Cardinality(bots) = MinPool - Len(observed)

\* C17 witness: three signups without synthetic fill: one team and the
\* third user dropped.
C17_Witness ==
    /\ built
    /\ host # "bots"
    /\ Len(observed) = 3
    /\ Len(teams) = 1
    /\ dropped \in {observed[k][1] : k \in DOMAIN observed}
    /\ dropped \notin TeamUsers

\* Users u and v, both read by the constructor, declared each other.
Mutual(u, v) ==
    /\ u # v
    /\ has([k \in DOMAIN observed |-> observed[k][1]], u)
    /\ has([k \in DOMAIN observed |-> observed[k][1]], v)
    /\ get(observed, u) = v
    /\ get(observed, v) = u

\* C18: with partner choice honored, two signed-up users who declared each
\* other are one team and neither is dropped, whatever the order of the
\* entries; the teams the partner step forms are the first of the team
\* list and each is such a pair; without partner choice the step forms
\* none.
C18_MutualPartnersTeamed ==
    built =>
        LET m == partnerMatch(observed, host, choosePartner)
        IN /\ SubSeq(teams, 1, Len(m.teams)) = m.teams
           /\ \A j \in DOMAIN m.teams : Mutual(m.teams[j][1], m.teams[j][2])
           /\ ~choosePartner => m.teams = <<>>
           /\ choosePartner =>
                 \A u, v \in {observed[k][1] : k \in DOMAIN observed} :
                     Mutual(u, v) =>
                         /\ \E j \in DOMAIN m.teams :
                               m.teams[j] \in {<<u, v>>, <<v, u>>}
                         /\ dropped \notin {u, v}

\* C18 witness: the entry of a user who declared partner a user that did
\* not return it comes first, the two others declared each other and are
\* the team, and the first is dropped.
C18_Witness ==
    /\ built
    /\ choosePartner
    /\ Len(observed) = 3
    /\ ~Mutual(observed[1][1], observed[1][2])
    /\ observed[1][2] # 0
    /\ Mutual(observed[2][1], observed[3][1])
    /\ Len(teams) = 1
    /\ dropped = observed[1][1]

\* The users of the entries pickTeams read when the driver was constructed.
Snapshot == {observed[k][1] : k \in DOMAIN observed}

\* C19: teams, dropped, games and rounds are computed in the constructor
\* from the signups of that instant: the entries pickTeams reads are the
\* signups of the driver's tournament as the construction finds them; in
\* every state of a constructed driver, whatever the signups have become
\* and however far run() has come, the users on the teams and the dropped
\* one are those entries' users, teams and dropped are what pickTeams
\* forms from those entries, and the rounds, the set of games, their links
\* and the round-1 teams are those of the bracket of these teams; and no
\* step taken after the construction, a signup added or removed, to this
\* tournament or another, or a step of run(), changes any of them.
C19_SnapshotAtConstruction ==
    /\ [](built =>
            /\ (TeamUsers \cup ({dropped} \ {0})) \ bots = Snapshot
            /\ \E pick \in samples(observed, host, choosePartner) :
                  LET r == pickTeams(observed, host, choosePartner, pick)
                  IN /\ teams = r.teams
                     /\ dropped = r.dropped
            /\ LET b == createBracket(teams)
               IN /\ rounds = b.rounds
                  /\ DOMAIN games = DOMAIN b.games
                  /\ \A g \in DOMAIN games :
                        /\ games[g].next_game = b.games[g].next_game
                        /\ games[g].previous_games =
                              b.games[g].previous_games
                        /\ games[g].round = 1 =>
                              games[g].teams = b.games[g].teams)
    /\ [][/\ (~built /\ built') =>
                /\ Len(observed') = Cardinality(DOMAIN signups[t_id])
                /\ {observed'[k] : k \in DOMAIN observed'} =
                      {<<u, signups[t_id][u]>> : u \in DOMAIN signups[t_id]}
          /\ built =>
                /\ observed' = observed
                /\ teams' = teams
                /\ dropped' = dropped
                /\ rounds' = rounds
                /\ DOMAIN games' = DOMAIN games
                /\ \A g \in DOMAIN games :
                      /\ games'[g].next_game = games[g].next_game
                      /\ games'[g].previous_games = games[g].previous_games
                      /\ games[g].round = 1 =>
                            games'[g].teams = games[g].teams]_vars

\* C19 witness: a driver of four teams was constructed, since then a user
\* on its teams withdrew and another signed up, with the second of two
\* calls; run() is pending and a match of round 1 has reported gameOver,
\* its winners being in the final game.
C19_Witness ==
    /\ built
    /\ Len(teams) = 4
    /\ Snapshot \ DOMAIN signups[t_id] # {}
    /\ DOMAIN signups[t_id] \ Snapshot # {}
    /\ requests = 2
    /\ answer = Returns(TRUE)
    /\ Len(runs) = 1
    /\ runs[1].state = "pending"
    /\ \E g \in DOMAIN games :
          /\ games[g].round = 2
          /\ games[g].teams # <<>>

\* The position in round 1 of the k-th game filled (k = 0, 1, ...):
\* 0, game_count - 1, 1, game_count - 2, ...
FillPosition(k) ==
    IF k % 2 = 0 THEN k \div 2 ELSE GameCount - (1 + (k \div 2))

\* C21: the k-th round-1 game filled, at position FillPosition(k), holds
\* teams[k] as its first seat and as its second seat the bye if k < byes
\* and teams[N-1-(k-byes)] otherwise; the bracket is the function
\* createBracket of the ordered team list.
C21_FillOrder ==
    /\ Len(teams) >= 4 =>
          LET N    == Len(teams)
              byes == (2 * GameCount) - N
          IN \A k \in 0..(GameCount - 1) :
                LET game == games[rounds[1][FillPosition(k) + 1]]
                IN chains = <<>> =>
                      game.teams =
                          <<teams[k + 1],
                            IF k < byes THEN Bye
                            ELSE teams[(N - 1 - (k - byes)) + 1]>>
    /\ chains = <<>> =>
          /\ games = createBracket(teams).games
          /\ rounds = createBracket(teams).rounds

\* C21 witness: six teams, four round-1 games and two byes: the games at
\* positions 0 and 3 were filled first and hold the byes, the game at
\* position 1 holds teams[2] and teams[5].
C21_Witness ==
    /\ Len(teams) = 6
    /\ games[rounds[1][1]].teams = <<teams[1], Bye>>
    /\ games[rounds[1][4]].teams = <<teams[2], Bye>>
    /\ games[rounds[1][2]].teams = <<teams[3], teams[6]>>
    /\ games[rounds[1][3]].teams = <<teams[4], teams[5]>>

\* C26 (as claimed): every round-1 game has row = 2 * position and col = 0.
C26_RoundOneLayout ==
    \A r \in DOMAIN rounds : \A i \in DOMAIN rounds[r] :
        r = 1 =>
            /\ games[rounds[r][i]].row = 2 * (i - 1)
            /\ games[rounds[r][i]].col = 0

\* The row offset of round r: 1 for round 2, then the sum of the 2^(q-1)
\* added after each round q = 2 .. r-1.
Base(r) == pow2(r - 1) - 1

\* C27 (as claimed): a game at position i of round r >= 2 has
\* col = 2 * (r-1) and row = base + (game_count / round_games) * i * 2,
\* where base is 1 for round 2 and grows by 2^(r-2) after round r, which
\* makes it 2^(r-2) for round r.
C27_LaterLayoutHalfStep ==
    \A r \in DOMAIN rounds : \A i \in DOMAIN rounds[r] :
        r >= 2 =>
            /\ games[rounds[r][i]].col = 2 * (r - 1)
            /\ games[rounds[r][i]].row =
                  pow2(r - 2)
                    + ((GameCount \div Len(rounds[r])) * (i - 1) * 2)

\* C27 (amended): a game at position i of round r >= 2 has
\* col = 2 * (r-1) and row = base + (game_count / round_games) * i * 2,
\* where round_games halves each round and base is 1 for round 2 and grows
\* by 2^(r-1) after round r.
C27_LaterLayout ==
    \A r \in DOMAIN rounds : \A i \in DOMAIN rounds[r] :
        r >= 2 =>
            /\ Len(rounds[r]) * 2 = Len(rounds[r - 1])
            /\ games[rounds[r][i]].col = 2 * (r - 1)
            /\ games[rounds[r][i]].row =
                  Base(r) + ((GameCount \div Len(rounds[r])) * (i - 1) * 2)

\* C27 witness: eight round-1 games: the final game of round 4 lies in
\* row 7, the two games of round 3 in rows 3 and 11.
C27_Witness ==
    /\ Len(rounds) = 4
    /\ games[rounds[4][1]].row = 7
    /\ games[rounds[3][1]].row = 3
    /\ games[rounds[3][2]].row = 11
    /\ games[rounds[2][4]].row = 13

\* The seats of round-1 games that hold the team of index j of the list.
SeatsOfTeam(j) ==
    {ps \in (DOMAIN rounds[1]) \X {1, 2} :
        games[rounds[1][ps[1]]].teams[ps[2]] = teams[j]}

\* C30: after construction every team of the list holds exactly one seat of
\* one round-1 game: the first seats hold the indices 0 .. game_count-1,
\* the second seats that are no bye hold the indices N-1 down to
\* game_count, and no index is used twice.
C30_EveryTeamSeatedOnce ==
    (Len(teams) >= 4 /\ chains = <<>>) =>
        /\ \A j \in DOMAIN teams : Cardinality(SeatsOfTeam(j)) = 1
        /\ {games[g].teams[1] : g \in DOMAIN rounds[1]} =
              {teams[j] : j \in 1..GameCount}
        /\ {games[g].teams[2] : g \in DOMAIN rounds[1]} \ {Bye} =
              {teams[j] : j \in (GameCount + 1)..Len(teams)}
        /\ \A g \in DOMAIN rounds[1] : Len(games[g].teams) = 2

\* C30 witness: seven teams: the only bye is in the game filled first, and
\* the last three teams are second seats.
C30_Witness ==
    /\ Len(teams) = 7
    /\ Cardinality(ByeGames) = 1
    /\ \A j \in 5..7 : \E ps \in SeatsOfTeam(j) : ps[2] = 2

\* C22: when the match of a game reports gameOver with winning seats
\* <<a, b>>, the winners are the users at seats a and b of the table
\* <<team0.user0, team1.user0, team0.user1, team1.user1>>: the game's first
\* team for <<0, 2>>, its second for <<1, 3>>.  The final game reports them
\* in tournamentOver; any other game appends them to its successor's teams
\* and invokes the successor's start() in the same step, its own promise
\* resolved with the promise of that call.
C22_WinnersAdvance ==
    [][\A i \in ChainIds : \A w \in WinnerIndices :
          GameOver(i, w) =>
              LET d       == Len(chains[i])
                  c       == chains[i][d]
                  game    == games[c.g]
                  next    == game.next_game
                  winners == <<c.table[w[1] + 1], c.table[w[2] + 1]>>
              IN /\ c.table = <<game.teams[1][1], game.teams[2][1],
                                game.teams[1][2], game.teams[2][2]>>
                 /\ w = <<0, 2>> => winners = game.teams[1]
                 /\ w = <<1, 3>> => winners = game.teams[2]
                 /\ next = 0 =>
                       /\ games' = games
                       /\ events' = emit(events,
                                         Event("tournamentOver", game.round,
                                               0, <<c.g, i, d>>, winners))
                       /\ Len(chains'[i]) = d
                       /\ promises'[pRoom(i, d)].state = "fulfilled"
                 /\ next # 0 =>
                       /\ games'[next].teams =
                             Append(games[next].teams, winners)
                       /\ Len(chains'[i]) = d + 1
                       /\ chains'[i][d].pc = "follow"
                       /\ chains'[i][d + 1].g = next
                       /\ promises'[pRoom(i, d)].resolved
                       /\ promises'[pRoom(i, d)].state = "pending"
                       /\ jobs'[Len(jobs')] =
                             Job("thenable", pRoom(i, d), pStart(i, d + 1),
                                 "", NoError)]_vars

\* C22 witness: the final game holds the second team of its first
\* predecessor and the first team of its second one, and has reported the
\* second of these as the winners of the tournament.
C22_Witness ==
    /\ rounds # <<>>
    /\ LET final == games[FinalGame]
           p1    == games[final.previous_games[1]]
           p2    == games[final.previous_games[2]]
       IN /\ Len(final.teams) = 2
          /\ Len(p1.teams) = 2 /\ Len(p2.teams) = 2
          /\ \E k \in {1, 2} : final.teams[k] = p1.teams[2]
          /\ \E k \in {1, 2} : final.teams[k] = p2.teams[1]
          /\ \E e \in EventsOf("tournamentOver") : e.winners = final.teams[2]

\* The teams game g holds.
TeamsOfGame(g) == {games[g].teams[k] : k \in DOMAIN games[g].teams}

\* C23: start() on a game that holds fewer than two teams, none the bye,
\* returns the games and the notifications as they were, without lookup
\* and without GameRoom; the calls of a run that ended this way have no
\* GameRoom and no summonTable, and their promise was resolved with a
\* fulfilled promise: it is fulfilled, or the job that fulfils it is
\* queued.
C23_StartNotReadyNoop ==
    /\ \A g \in DOMAIN games :
          (Len(games[g].teams) < 2 /\ Bye \notin TeamsOfGame(g)) =>
              LET r == start(games, events, g)
              IN /\ r.games = games
                 /\ r.events = events
                 /\ Len(r.calls) = 1
                 /\ Noop(r.calls[1])
    /\ \A i \in DOMAIN chains :
          LET d == Len(chains[i])
              c == chains[i][d]
          IN (c.pc = "done" /\ c.room = "none") =>
                /\ Noop(c)
                /\ d >= 2
                /\ \A e \in EventsOf("summonTable") : e.room # <<c.g, i, d>>
                /\ promises[pReady(i, d)].state = "fulfilled"
                /\ promises[pStart(i, d)].resolved
                /\ \/ promises[pStart(i, d)].state = "fulfilled"
                   \/ \E k \in DOMAIN jobs :
                         /\ jobs[k].p = pStart(i, d)
                         /\ jobs[k].q = pReady(i, d)

\* C23 witness: a game of a later round holds one team; the start() its
\* first predecessor invoked was a no-op and the other predecessor's match
\* is live.
C23_Witness ==
    \E i \in DOMAIN chains :
        LET d == Len(chains[i])
            c == chains[i][d]
        IN /\ Noop(c)
           /\ Len(games[c.g].teams) = 1
           /\ CallsOf(c.g) = {<<i, d>>}
           /\ \E p \in TeamsOfGame(c.g) : p # Bye
           /\ \E id \in CallIds :
                 /\ CallAt(id).room = "live"
                 /\ games[CallAt(id).g].next_game = c.g

\* C28: in a run every game holds at most two teams, and each team of a
\* game of a later round is a team of one of its two predecessors, at most
\* one per predecessor.
C28_AtMostOneTeamPerPredecessor ==
    \A g \in DOMAIN games :
        /\ Len(games[g].teams) <= 2
        /\ games[g].round >= 2 =>
              /\ \A k \in DOMAIN games[g].previous_games :
                    Cardinality({t \in DOMAIN games[g].teams :
                                    games[g].teams[t] \in
                                       TeamsOfGame(games[g].previous_games[k])})
                       <= 1
              /\ \A t \in DOMAIN games[g].teams :
                    \E k \in DOMAIN games[g].previous_games :
                        /\ games[g].teams[t] \in
                              TeamsOfGame(games[g].previous_games[k])
                        /\ Pushed(games[g].previous_games[k])

\* C28 witness: every game of a five-team bracket holds two teams and
\* the last match is over.
C28_Witness ==
    /\ Len(teams) = 5
    /\ \A g \in DOMAIN games : Len(games[g].teams) = 2
    /\ EventCount("tournamentOver") = 1

\* C29: the bye occurs in round-1 games only and at most once per game; a
\* game that holds it has a real surviving team and a successor; a chain of
\* start() calls passes through at most one such game, its first, and goes
\* on to a game that holds none.
C29_ByeOnlyOnceInRoundOne ==
    /\ \A g \in DOMAIN games :
          /\ Cardinality({k \in DOMAIN games[g].teams :
                             games[g].teams[k] = Bye}) <= 1
          /\ games[g].round >= 2 => Bye \notin TeamsOfGame(g)
          /\ Bye \in TeamsOfGame(g) =>
                /\ bye(games[g].teams) \notin {Bye, Undefined}
                /\ games[g].next_game # 0
    /\ \A i \in DOMAIN chains : \A d \in DOMAIN chains[i] :
          Bye \in TeamsOfGame(chains[i][d].g) =>
              /\ d = 1
              /\ Len(chains[i]) >= 2
              /\ Bye \notin TeamsOfGame(chains[i][2].g)

\* C29 witness: five teams: the chain of a bye game went on to the round-2
\* game, which holds two surviving teams and has its match.
C29_Witness ==
    /\ Len(teams) = 5
    /\ \E i \in DOMAIN chains :
          /\ Bye \in TeamsOfGame(chains[i][1].g)
          /\ Len(chains[i]) = 2
          /\ chains[i][2].room = "live"
          /\ Len(games[chains[i][2].g].teams) = 2

\* The entries of users 1 to n as the shuffle returns them when it leaves
\* them in the order of their signup, the first two having declared each
\* other.
SignupOrder(n) ==
    [k \in 1..n |-> <<k, IF k = 1 /\ n >= 2 THEN 2
                         ELSE IF k = 2 THEN 1 ELSE 0>>]

\* C24: when synthetic fill is requested the pool holds max identifiers,
\* max the smallest of 8, 16, 32, ... that is at least the number of signups,
\* and team formation yields max / 2 teams and drops nobody: in every
\* driver constructed, and in what pickTeams computes for up to
\* MaxPoolUsers users in the order of their signup.
C24_FillToPowerOfTwo ==
    /\ (built /\ host = "bots") =>
          LET count == Len(observed)
              max   == Cardinality(Pool)
          IN /\ IsPowerOfTwo(max)
             /\ max >= MinPool
             /\ max >= count
             /\ max > MinPool => max \div 2 < count
             /\ Cardinality(bots) = max - count
             /\ 2 * Len(teams) = max
             /\ dropped = 0
             /\ PoolPartitioned
    /\ (~built /\ signups[t_id] = <<>>) =>
          \A count \in 0..MaxPoolUsers :
              LET max == max_loop(count, MinPool)
                  r   == pickTeams(SignupOrder(count), "bots",
                                   choosePartner, 1)
              IN /\ IsPowerOfTwo(max)
                 /\ max >= MinPool
                 /\ max >= count
                 /\ max > MinPool => max \div 2 < count
                 /\ Cardinality(r.bots) = max - count
                 /\ 2 * Len(r.teams) = max
                 /\ r.dropped = 0

\* C24 witness: five signups, two of them mutual partners and read last by
\* the constructor, are filled to a pool of eight: four teams, three names
\* generated.
C24_Witness ==
    /\ built
    /\ host = "bots"
    /\ choosePartner
    /\ Len(observed) = 5
    /\ {observed[4][1], observed[5][1]} = {1, 2}
    /\ Cardinality(bots) = 3
    /\ Len(teams) = 4
    /\ \E j \in DOMAIN teams : {teams[j][1], teams[j][2]} = {1, 2}

\* C25: for every signup mapping, every order of the shuffle and every pick
\* of the sample, the assertions of pickTeams and of createBracket hold: the
\* dropped identifier exists when the pile is odd, the pile is even after
\* the drop, both members of every pair exist and every round-1 game
\* populated exists; a constructed driver has its dropped identifier when
\* the pool is odd, two identifiers in every team and two seats filled in
\* every round-1 game.  The same assertions hold in what pickTeams and
\* createBracket compute for up to MaxPoolUsers users in the order of
\* their signup.
C25_NoAssertFails ==
    /\ ~built =>
          LET entries == shuffle(signups[t_id],
                                 shuffled(order, DOMAIN signups[t_id]))
          IN \A pick \in samples(entries, host, choosePartner) :
                /\ pickTeams_asserts(entries, host, choosePartner, pick)
                /\ createBracket_asserts(
                       pickTeams(entries, host, choosePartner, pick).teams)
    /\ (~built /\ signups[t_id] = <<>>) =>
          \A count \in 0..MaxPoolUsers :
              LET entries == SignupOrder(count)
              IN \A pick \in samples(entries, host, choosePartner) :
                    /\ pickTeams_asserts(entries, host, choosePartner, pick)
                    /\ createBracket_asserts(
                           pickTeams(entries, host, choosePartner, pick).teams)
    /\ built =>
          /\ Cardinality(Pool) % 2 = 1 => dropped # 0
          /\ \A j \in DOMAIN teams : teams[j][1] # 0 /\ teams[j][2] # 0
          /\ \A g \in DOMAIN games : games[g].round = 1 =>
                Len(games[g].teams) = 2

\* C25 witness: five signups with synthetic fill and partner choice, the
\* first two mutual partners: their team, a pile of six paired off, and a
\* bracket of two round-1 games with both seats filled.
C25_Witness ==
    /\ built
    /\ host = "bots"
    /\ choosePartner
    /\ Len(observed) = 5
    /\ dropped = 0
    /\ {teams[1][1], teams[1][2]} = {1, 2}
    /\ Len(teams) = 4
    /\ Len(rounds) = 2
    /\ \A g \in DOMAIN rounds[1] : Len(games[rounds[1][g]].teams) = 2

\* C35: in a built bracket the row of every game of a round r >= 2 is the
\* mean of the rows of its two predecessors, and the games of one round lie
\* in pairwise distinct rows.
C35_RowsMidway ==
    /\ \A r \in DOMAIN rounds : \A i \in DOMAIN rounds[r] :
          r >= 2 =>
              LET game == games[rounds[r][i]]
              IN /\ Len(game.previous_games) = 2
                 /\ 2 * game.row = games[game.previous_games[1]].row
                                     + games[game.previous_games[2]].row
    /\ \A r \in DOMAIN rounds : \A i, j \in DOMAIN rounds[r] :
          i # j => games[rounds[r][i]].row # games[rounds[r][j]].row

\* C35 witness: sixteen round-1 games: the final game of round 5 lies in
\* row 15, midway between its predecessors in rows 7 and 23.
C35_Witness ==
    /\ Len(rounds) = 5
    /\ games[FinalGame].row = 15
    /\ games[games[FinalGame].previous_games[1]].row = 7
    /\ games[games[FinalGame].previous_games[2]].row = 23

\* The two users of team t.
UsersOf(t) == {t[1], t[2]}

\* Team t has the users of one of the teams formed at construction.
Original(t) == \E j \in DOMAIN teams : UsersOf(t) = UsersOf(teams[j])

\* C31: with winning seats [0,2] or [1,3] reported by every match, every
\* team of a game that is not the bye has the two users of a team formed at
\* construction, no team is in two games of one round, and the winners of
\* tournamentOver are one of the teams formed at construction.
C31_TeamsStayTogether ==
    /\ \A g \in DOMAIN games : \A t \in TeamsOfGame(g) \ {Bye} : Original(t)
    /\ \A r \in DOMAIN rounds : \A i, j \in DOMAIN rounds[r] :
          i < j =>
              \A t \in TeamsOfGame(rounds[r][i]) \ {Bye} :
                  \A u \in TeamsOfGame(rounds[r][j]) \ {Bye} :
                      UsersOf(t) \cap UsersOf(u) = {}
    /\ \A e \in EventsOf("tournamentOver") : Original(e.winners)

\* C31 witness: five teams: the fifth team, seated second in its round-1
\* game, has won the tournament.
C31_Witness ==
    /\ Len(teams) = 5
    /\ \E e \in EventsOf("tournamentOver") : e.winners = teams[5]

\* The GameRooms created so far.
Rooms == {id \in CallIds : CallAt(id).room # "none"}

\* C32: when every lookup and every match succeeded and tournamentOver was
\* emitted, N - 1 = 2 * game_count - 1 - byes GameRooms were created and as
\* many summonTable notifications emitted: one for each game that holds no
\* bye, none for the others; before that there are never more.
C32_OneRoomPerPlayedGame ==
    Len(teams) >= 4 =>
        /\ Cardinality(Rooms) <= Len(teams) - 1
        /\ EventCount("summonTable") = Cardinality(Rooms)
        /\ EventCount("tournamentOver") = 1 =>
              /\ Cardinality(Rooms) = Len(teams) - 1
              /\ Len(teams) - 1 =
                    (2 * GameCount) - 1 - Cardinality(ByeGames)
              /\ Len(games) = (2 * GameCount) - 1
              /\ \A g \in DOMAIN games :
                    Cardinality(RoomsOf(g)) = (IF g \in ByeGames THEN 0 ELSE 1)

\* C32 witness: five teams, three byes: the four matches were played and
\* tournamentOver was emitted.
C32_Witness ==
    /\ Len(teams) = 5
    /\ Cardinality(ByeGames) = 3
    /\ EventCount("tournamentOver") = 1
    /\ EventCount("summonTable") = 4

\* C33: started and finished of a game are equal, and true exactly for the
\* round-1 games that hold the bye; no step (a start(), a GameRoom created,
\* gameOver, gameError) changes either flag of any game.
C33_FlagsOnlyForByes ==
    /\ [](\A g \in DOMAIN games :
            /\ games[g].started = games[g].finished
            /\ games[g].started <=> g \in ByeGames)
    /\ [][\A g \in DOMAIN games :
            /\ games'[g].started = games[g].started
            /\ games'[g].finished = games[g].finished]_vars

\* C33 witness: five teams: the round-2 game fed by two bye games has its
\* match live and is neither started nor finished, the match of a round-1
\* game has failed and that game is neither, and the bye games are both.
C33_Witness ==
    /\ Len(teams) = 5
    /\ \E i \in DOMAIN chains : \E d \in DOMAIN chains[i] :
          /\ chains[i][d].room = "live"
          /\ games[chains[i][d].g].round = 2
          /\ ~games[chains[i][d].g].started
          /\ ~games[chains[i][d].g].finished
    /\ \E i \in DOMAIN chains : \E d \in DOMAIN chains[i] :
          /\ chains[i][d].room = "error"
          /\ ~games[chains[i][d].g].started
    /\ \A g \in ByeGames : games[g].started /\ games[g].finished

\* C34: the handlers of gameOver and gameError are subscribed before
\* summonTable is emitted: a GameRoom that reports its outcome while
\* summonTable is delivered has its summonTable emitted once and its outcome
\* handled once: on gameOver the winners are pushed into the successor
\* once and the successor started, or tournamentOver is emitted once; on
\* gameError the call is rejected and no game changes.  No outcome is ever
\* reported to a room whose call stays pending, no game holds more than
\* two teams and tournamentOver is emitted at most once.
C34_SyncOutcomeHandledOnce ==
    /\ [](/\ \A i \in DOMAIN chains : \A d \in DOMAIN chains[i] :
               chains[i][d].room \in {"over", "error"} =>
                   chains[i][d].pc \in {"follow", "done", "failed"}
          /\ \A g \in DOMAIN games : Len(games[g].teams) <= 2
          /\ EventCount("tournamentOver") <= 1)
    /\ [][\A i \in ChainIds : \A out \in Outcomes :
            SummonSync(i, out) =>
                LET d    == Len(chains[i])
                    c    == chains[i][d]
                    game == games[c.g]
                    next == game.next_game
                    rid  == <<c.g, i, d>>
                    winners == IF out.winnerIndices = <<0, 2>>
                               THEN game.teams[1] ELSE game.teams[2]
                IN /\ CopiesIn(Event("summonTable", game.round, 0, rid, <<>>),
                               events') = 1
                   /\ chains'[i][d].sync
                   /\ jobs'[Len(jobs')] =
                         Job("thenable", pStart(i, d), pRoom(i, d), "", NoError)
                   /\ out.type = "gameError" =>
                         /\ games' = games
                         /\ chains'[i][d].pc = "failed"
                         /\ chains'[i][d].room = "error"
                         /\ Len(chains'[i]) = d
                         /\ promises'[pRoom(i, d)].state = "rejected"
                   /\ (out.type = "gameOver" /\ next # 0) =>
                         /\ games'[next].teams =
                               Append(games[next].teams, winners)
                         /\ chains'[i][d].pc = "follow"
                         /\ chains'[i][d].room = "over"
                         /\ chains'[i][d + 1].g = next
                         /\ promises'[pRoom(i, d)].resolved
                   /\ (out.type = "gameOver" /\ next = 0) =>
                         /\ games' = games
                         /\ EventCount("tournamentOver")' = 1
                         /\ chains'[i][d].pc = "done"
                         /\ chains'[i][d].room = "over"
                         /\ promises'[pRoom(i, d)].state = "fulfilled"]_vars

\* C34 witness: every match of a bracket of five teams reported gameOver
\* while its summonTable was delivered, and tournamentOver was emitted.
C34_Witness ==
    /\ Len(teams) = 5
    /\ EventCount("tournamentOver") = 1
    /\ EventCount("summonTable") = 4
    /\ \A i \in DOMAIN chains : \A d \in DOMAIN chains[i] :
          chains[i][d].room # "none" =>
              chains[i][d].room = "over" /\ chains[i][d].sync

=============================================================================
